---- MODULE Spec2Model ----
(***************************************************************************)
(* A model of the ghost routing engine (varnish/gateway, ghost/src).      *)
(*                                                                         *)
(* Host names, paths and URLs are sequences of one-character strings, so  *)
(* that lowercasing, splitting and suffix tests are computed as the code  *)
(* computes them.  Backend addresses are opaque strings; a pool key is    *)
(* the string address ":" port, as format!("{}:{}") builds it.            *)
(* An Option is a sequence of length 0 (None) or 1 (Some).                *)
(* A value the code binds once and reads several times is passed to a     *)
(* helper operator as a parameter.                                        *)
(***************************************************************************)
EXTENDS Integers, Sequences, FiniteSets, TLC

VARIABLES
    routing,      \* GhostDirector.routing : ArcSwap<RoutingState>
    backends,     \* GhostDirector.backends : ArcSwap<BackendPool>
    routing_by,   \* history: number of the reload that stored routing (0: new())
    backends_by,  \* history: number of the reload that stored backends (0: new())
    reloads,      \* number of reload calls started so far
    rl,           \* per reload caller: position in reload() and its locals
    rs,           \* per worker: position in resolve() and its locals
    args,         \* input of the pure function under check
    ret,          \* its result: <<>> before the call, <<value>> after
    stats,        \* VhostDirector.stats : VhostStats, with the holders of its locks
    vs,           \* per thread: position in VhostDirector::resolve and its locals
    body,         \* a response body being read: <<>> before it is built
    ghost_state,  \* lib.rs STATE : RwLock<Option<Arc<GhostState>>>, with its holders
    lw,           \* per thread of lib.rs: position in get_response or reload_config
    rt,           \* runtime.rs: the request channel and the tasks of the runtime
    body_ch       \* the body channel of one response and its producer

vars == <<routing, backends, routing_by, backends_by, reloads, rl, rs, args, ret,
          stats, vs, body, ghost_state, lw, rt, body_ch>>

libVars == <<ghost_state, lw, rt, body_ch>>

statVars == <<stats, vs>>

None == <<>>
Some(v) == <<v>>

\* the threads that call resolve on one VhostDirector
Threads == {"t1", "t2"}

\* VhostStats::new, no lock held
VhostStats_new ==
    [total_requests |-> 0, last_request |-> None, backend_selections |-> <<>>,
     last_request_lock |-> None, backend_selections_lock |-> None]

\* a thread outside resolve: calls counts the resolve calls it has made,
\* records the record_request calls of it that have returned, recorded lists
\* the keys its last resolve has passed to record_request
IdleThread ==
    [pc |-> "idle", calls |-> 0, records |-> 0, key |-> None, recorded |-> <<>>,
     result |-> None]

StatsIdle == stats = VhostStats_new /\ vs = [t \in Threads |-> IdleThread]

NoBody == body = None

\* the threads that run get_response and reload_config of lib.rs
LibWorkers == {"w1", "w2"}

\* a thread of lib.rs outside both functions; fetches and reloads count the
\* calls it has made
IdleLibWorker ==
    [pc |-> "idle", fetches |-> 0, reloads |-> 0, request |-> None, result |-> None]

\* STATE after init() stored the first configuration, nobody holding the
\* lock; the runtime after BgThread::new() with nothing sent to it; no body
\* channel
LibIdle ==
    /\ ghost_state = [config |-> Some(0), readers |-> {}, writer |-> None]
    /\ lw = [w \in LibWorkers |-> IdleLibWorker]
    /\ rt = [queue |-> <<>>, tasks |-> <<>>]
    /\ body_ch = None

\* Option::or
or_else(a, b) == IF a # None THEN a ELSE b

---------------------------------------------------------------------------
(* Strings *)

\* char::to_lowercase on the letters the model uses
ToLowerChar(c) ==
    CASE c = "A" -> "a"
      [] c = "B" -> "b"
      [] c = "X" -> "x"
      [] OTHER -> c

to_lowercase(s) == [i \in 1..Len(s) |-> ToLowerChar(s[i])]

starts_with(s, p) == Len(p) <= Len(s) /\ SubSeq(s, 1, Len(p)) = p

ends_with(s, p) == Len(p) <= Len(s) /\ SubSeq(s, Len(s) - Len(p) + 1, Len(s)) = p

contains_char(s, c) == \E i \in 1..Len(s) : s[i] = c

least_or_zero(idx) == IF idx = {} THEN 0 ELSE CHOOSE i \in idx : \A j \in idx : i <= j

\* str::find(c): the index of the first c, 0 when there is none
find_char(s, c) == least_or_zero({i \in 1..Len(s) : s[i] = c})

\* s[..i-1] for a found index i, all of s for i = 0
before_index(s, i) == IF i = 0 THEN s ELSE SubSeq(s, 1, i - 1)

\* s.split(c).next(): the text before the first c (all of s when there is none)
split_first(s, c) == before_index(s, find_char(s, c))

\* s[from..] with from a 0-based byte offset
slice_from(s, from) == SubSeq(s, from + 1, Len(s))

---------------------------------------------------------------------------
(* director.rs: matching *)

\* the label test without the search for '.'
single_label_any_prefix(prefix) == prefix # <<>>

\* lines 603-607: the part of host in front of the suffix is one label
single_label(prefix) == prefix # <<>> /\ ~contains_char(prefix, ".")

\* the suffix test alone, the part in front of any depth
wildcard_suffix_matches_any_depth(suffix, host) ==
    ends_with(host, suffix) /\ Len(host) > Len(suffix)

\* lines 598-607
wildcard_suffix_matches(suffix, host) ==
    IF ~ends_with(host, suffix) THEN FALSE
    ELSE single_label(SubSeq(host, 1, Len(host) - Len(suffix)))

matches_wildcard(pattern, host) ==
    IF ~starts_with(pattern, <<"*", ".">>) THEN FALSE
    ELSE wildcard_suffix_matches(slice_from(pattern, 1), host)

\* a plain string prefix test, without the element boundary
matches_path_prefix_as_string_prefix(prefix, path) == starts_with(path, prefix)

\* matches_path_prefix (lines 719-744)
matches_path_prefix(prefix, path) ==
    IF prefix = <<"/">> THEN TRUE
    ELSE IF path = prefix THEN TRUE
    ELSE IF ~starts_with(path, prefix) THEN FALSE
    ELSE IF ends_with(prefix, <<"/">>) THEN TRUE
    ELSE starts_with(slice_from(path, Len(prefix)), <<"/">>)

\* PathMatchCompiled::matches; a compiled regex is the set of paths it accepts
PathMatchCompiled_matches(pm, path) ==
    CASE pm.kind = "Exact" -> path = pm.value
      [] pm.kind = "PathPrefix" -> matches_path_prefix(pm.value, path)
      [] pm.kind = "Regex" -> path \in pm.accepts

\* get_host_header: None without a (UTF-8) Host header, else the text before
\* the first ':' lowercased
get_host_header(host_header) ==
    IF host_header = None THEN None
    ELSE Some(to_lowercase(split_first(host_header[1], ":")))

path_or_root(path) == IF path = <<>> THEN <<"/">> ELSE path

strip_fragment(s) == before_index(s, find_char(s, "#"))

\* extract_path_and_query for '?' found at index q (0: not found)
split_url(url, q) ==
    IF q # 0
    THEN <<path_or_root(SubSeq(url, 1, q - 1)), Some(strip_fragment(slice_from(url, q)))>>
    ELSE <<path_or_root(strip_fragment(url)), None>>

\* extract_path_and_query: <<path, Option<query>>>
extract_path_and_query(url) == split_url(url, find_char(url, "?"))

\* query.split('&'): the pieces between '&' characters, in order
RECURSIVE split_amp(_)
split_amp_at(s, i) ==
    IF i = 0 THEN <<s>> ELSE <<SubSeq(s, 1, i - 1)>> \o split_amp(slice_from(s, i))

split_amp(s) == split_amp_at(s, find_char(s, "&"))

\* insert in place of entry().or_insert(): a later pair replaces the value
insert_pair_last_wins(params, pair, eq) ==
    IF eq = 0 THEN params
    ELSE SelectSeq(params, LAMBDA kv : kv[1] # SubSeq(pair, 1, eq - 1))
             \o <<<<SubSeq(pair, 1, eq - 1), slice_from(pair, eq)>>>>

\* lines 703-708: a pair with '=' at index eq is inserted unless its key is there
insert_pair(params, pair, eq) ==
    IF eq # 0 /\ ~\E j \in 1..Len(params) : params[j][1] = SubSeq(pair, 1, eq - 1)
    THEN Append(params, <<SubSeq(pair, 1, eq - 1), slice_from(pair, eq)>>)
    ELSE params

RECURSIVE parse_pairs(_, _)
parse_pairs(pairs, params) ==
    IF pairs = <<>> THEN params
    ELSE parse_pairs(Tail(pairs), insert_pair(params, Head(pairs), find_char(Head(pairs), "=")))

\* parse_query_string: the map as a sequence of <<key, value>> with distinct keys
parse_query_string(query) == parse_pairs(split_amp(query), <<>>)

param_matches(qpm, params) ==
    \E j \in 1..Len(params) :
        /\ params[j][1] = qpm.name
        /\ IF qpm.kind = "Exact" THEN params[j][2] = qpm.value
           ELSE params[j][2] \in qpm.accepts

\* QueryParamMatchCompiled::matches
QueryParamMatchCompiled_matches(qpm, query_string) ==
    param_matches(qpm, parse_query_string(query_string))

\* HeaderMatchCompiled::matches; req_headers maps lowercased names to values
HeaderMatchCompiled_matches(hm, req_headers) ==
    /\ hm.name \in DOMAIN req_headers
    /\ IF hm.kind = "Exact" THEN req_headers[hm.name] = hm.value
       ELSE req_headers[hm.name] \in hm.accepts

\* the conditions of a route without the rule for a request with no query string
route_conditions_without_query_rule(route, path, method, req_headers, query_string) ==
    /\ route.path_match # None => PathMatchCompiled_matches(route.path_match[1], path)
    /\ route.method # None => route.method[1] = method
    /\ \A i \in 1..Len(route.headers) :
           HeaderMatchCompiled_matches(route.headers[i], req_headers)
    /\ query_string # None =>
           \A i \in 1..Len(route.query_params) :
               QueryParamMatchCompiled_matches(route.query_params[i], query_string[1])

\* the conditions of one route in director.rs match_routes (lines 553-580)
route_conditions(route, path, method, req_headers, query_string) ==
    /\ route.path_match # None => PathMatchCompiled_matches(route.path_match[1], path)
    /\ route.method # None => route.method[1] = method
    /\ \A i \in 1..Len(route.headers) :
           HeaderMatchCompiled_matches(route.headers[i], req_headers)
    /\ IF query_string # None
       THEN \A i \in 1..Len(route.query_params) :
                QueryParamMatchCompiled_matches(route.query_params[i], query_string[1])
       ELSE route.query_params = <<>>

\* director.rs match_routes: Option<backends of the first route that matches and
\* has a non-empty backend list>
RECURSIVE match_routes(_, _, _, _, _)
match_routes(routes, path, method, req_headers, query_string) ==
    IF routes = <<>> THEN None
    ELSE IF /\ route_conditions(Head(routes), path, method, req_headers, query_string)
            /\ Head(routes).backends # <<>>
         THEN Some(Head(routes).backends)
         ELSE match_routes(Tail(routes), path, method, req_headers, query_string)

\* vhost_director.rs match_routes: the first route whose conditions hold, returned
\* as a RouteMatchResult even when its backend list is empty
RECURSIVE vhost_match_routes(_, _, _, _, _)
vhost_match_routes(routes, path, method, req_headers, query_string) ==
    IF routes = <<>> THEN None
    ELSE IF route_conditions(Head(routes), path, method, req_headers, query_string)
         THEN Some([backends |-> Head(routes).backends, filters |-> Head(routes).filters,
                    matched_path |-> Head(routes).path_match])
         ELSE vhost_match_routes(Tail(routes), path, method, req_headers, query_string)

\* the wildcard loop of match_host_and_path (lines 525-531)
RECURSIVE match_wildcards(_, _, _, _, _, _)
match_wildcards(wildcards, host, path, method, req_headers, query_string) ==
    IF wildcards = <<>> THEN None
    ELSE or_else(IF matches_wildcard(Head(wildcards)[1], host)
                 THEN match_routes(Head(wildcards)[2], path, method, req_headers,
                                   query_string)
                 ELSE None,
                 match_wildcards(Tail(wildcards), host, path, method, req_headers,
                                 query_string))

\* match_host_and_path after host.to_lowercase() (lines 517-540)
match_lowercased(r, host, path, method, req_headers, query_string) ==
    or_else(IF host \in DOMAIN r.exact
            THEN match_routes(r.exact[host], path, method, req_headers, query_string)
            ELSE None,
            or_else(match_wildcards(r.wildcards, host, path, method, req_headers,
                                    query_string),
                    IF r.default # None /\ r.default[1] # <<>> THEN Some(r.default[1])
                    ELSE None))

match_host_and_path(r, host, path, method, req_headers, query_string) ==
    match_lowercased(r, to_lowercase(host), path, method, req_headers, query_string)

---------------------------------------------------------------------------
(* director.rs: weighted selection *)

\* refs.iter().map(|r| r.weight).sum(); the weights of the configurations
\* below stay far from the u32 range, so no addition wraps
RECURSIVE sum_weights(_)
sum_weights(refs) ==
    IF refs = <<>> THEN 0 ELSE Head(refs).weight + sum_weights(Tail(refs))

\* the loop with the test r <= cumulative in place of r < cumulative
RECURSIVE pick_cumulative_inclusive(_, _, _, _)
pick_cumulative_inclusive(refs, i, cumulative, r) ==
    IF i > Len(refs) THEN refs[1]
    ELSE IF r <= cumulative + refs[i].weight THEN refs[i]
    ELSE pick_cumulative_inclusive(refs, i + 1, cumulative + refs[i].weight, r)

\* the loop of select_backend_weighted (lines 632-641) for the draw r
RECURSIVE pick_cumulative(_, _, _, _)
pick_cumulative(refs, i, cumulative, r) ==
    IF i > Len(refs) THEN refs[1]
    ELSE IF r < cumulative + refs[i].weight THEN refs[i]
    ELSE pick_cumulative(refs, i + 1, cumulative + refs[i].weight, r)

\* lines 623-641
select_by_total(refs, total_weight, r) ==
    IF total_weight = 0 THEN None ELSE Some(pick_cumulative(refs, 1, 0, r))

\* select_backend_weighted with r the value rng.gen_range(0..total_weight) returns
select_backend_weighted(refs, r) ==
    IF refs = <<>> THEN None
    ELSE IF Len(refs) = 1 THEN Some(refs[1])
    ELSE select_by_total(refs, sum_weights(refs), r)

\* r is a value the draw of select_backend_weighted(refs) can return (0 where
\* it draws nothing)
possible_draw(refs, r) ==
    IF Len(refs) >= 2 THEN r = 0 \/ r < sum_weights(refs) ELSE r = 0

---------------------------------------------------------------------------
(* backend_pool.rs: a pool maps a key to a shared handle.  A handle is    *)
(* identified by its key and the number of the reload that created it.    *)

\* address.parse::<IpAddr>() succeeds
IpLiterals == {"10.0.0.1", "10.0.0.2", "::1"}

backend_key(address, port) == address \o ":" \o ToString(port)

\* get_or_create that returns the key of a new backend without inserting it
get_or_create_key_without_insert(pool, address, key, n, refused) ==
    [ok |-> address \in IpLiterals /\ key \notin refused, key |-> key, pool |-> pool]

\* get_or_create without the contains_key test of line 59
get_or_create_key_always_creates(pool, address, key, n, refused) ==
    IF address \notin IpLiterals \/ key \in refused
    THEN [ok |-> FALSE, key |-> key, pool |-> pool]
    ELSE [ok |-> TRUE, key |-> key,
          pool |-> [k \in DOMAIN pool \cup {key} |->
                        IF k = key THEN [key |-> key, by |-> n] ELSE pool[k]]]

\* get_or_create that inserts the handle before the address is parsed and the
\* native backend built
get_or_create_key_inserts_first(pool, address, key, n, refused) ==
    IF key \in DOMAIN pool THEN [ok |-> TRUE, key |-> key, pool |-> pool]
    ELSE [ok |-> address \in IpLiterals /\ key \notin refused, key |-> key,
          pool |-> [k \in DOMAIN pool \cup {key} |->
                        IF k = key THEN [key |-> key, by |-> n] ELSE pool[k]]]

\* lines 58-83 for the key built at line 56; refused: the keys whose native
\* backend the host refuses to build in this call; n: the calling reload
get_or_create_key(pool, address, key, n, refused) ==
    IF key \in DOMAIN pool THEN [ok |-> TRUE, key |-> key, pool |-> pool]
    ELSE IF address \notin IpLiterals \/ key \in refused
    THEN [ok |-> FALSE, key |-> key, pool |-> pool]
    ELSE [ok |-> TRUE, key |-> key,
          pool |-> [k \in DOMAIN pool \cup {key} |->
                        IF k = key THEN [key |-> key, by |-> n] ELSE pool[k]]]

\* BackendPool::get_or_create
get_or_create(pool, address, port, n, refused) ==
    get_or_create_key(pool, address, backend_key(address, port), n, refused)

BackendPool_get(pool, key) == IF key \in DOMAIN pool THEN Some(pool[key]) ELSE None

\* retain_only with the test of the closure negated
retain_only_evicts_listed(pool, keys_to_keep) ==
    [k \in {x \in DOMAIN pool : x \notin keys_to_keep} |-> pool[k]]

\* retain_only that evicts nothing
retain_only_keeps_all(pool, keys_to_keep) == pool

retain_only(pool, keys_to_keep) ==
    [k \in {x \in DOMAIN pool : x \in keys_to_keep} |-> pool[k]]

---------------------------------------------------------------------------
(* config.rs: loading *)

U16Max == 65535

validate_backends(bs) ==
    \A i \in 1..Len(bs) : bs[i].address # "" /\ bs[i].port # 0 /\ bs[i].weight # 0

\* validate_hostname on a sequence of characters
validate_hostname(hostname) ==
    /\ hostname # <<>>
    /\ contains_char(hostname, "*") =>
           /\ starts_with(hostname, <<"*", ".">>)
           /\ ~contains_char(slice_from(hostname, 2), "*")

validate_path_match(pm) ==
    IF pm.type \in {"Exact", "PathPrefix"}
    THEN /\ starts_with(pm.value, <<"/">>)
         /\ ~\E i \in 1..(Len(pm.value) - 1) : pm.value[i] = "/" /\ pm.value[i + 1] = "/"
    ELSE pm.compiles

validate_v2(config) ==
    /\ config.version = 2
    /\ \A i \in 1..Len(config.vhosts) :
           /\ validate_hostname(config.vhosts[i].hostname)
           /\ \A j \in 1..Len(config.vhosts[i].routes) :
                  /\ validate_backends(config.vhosts[i].routes[j].backends)
                  /\ config.vhosts[i].routes[j].path_match # None =>
                         validate_path_match(config.vhosts[i].routes[j].path_match[1])
           /\ validate_backends(config.vhosts[i].default_backends)
    /\ config.default # None => validate_backends(config.default[1])

\* ConfigV2::empty
ConfigV2_empty == [version |-> 2, vhosts |-> <<>>, default |-> None]

\* load_v2: a missing file is the empty configuration; an unreadable file, a
\* file that is not JSON of the schema, and a configuration that fails
\* validation are errors
load_v2(file) ==
    CASE file.kind = "missing" -> [ok |-> TRUE, config |-> ConfigV2_empty]
      [] file.kind = "unreadable" -> [ok |-> FALSE, config |-> ConfigV2_empty]
      [] file.kind = "garbage" -> [ok |-> FALSE, config |-> ConfigV2_empty]
      [] file.kind = "json" ->
            IF validate_v2(file.config) THEN [ok |-> TRUE, config |-> file.config]
            ELSE [ok |-> FALSE, config |-> ConfigV2_empty]

\* validate: the configuration of version 1, whose vhosts hold backends
validate(config) ==
    /\ config.version = 1
    /\ \A i \in 1..Len(config.vhosts) :
           /\ validate_hostname(config.vhosts[i].hostname)
           /\ validate_backends(config.vhosts[i].backends)
    /\ config.default # None => validate_backends(config.default[1])

\* Config::empty
Config_empty == [version |-> 1, vhosts |-> <<>>, default |-> None]

\* load: as load_v2, for the configuration of version 1
load(file) ==
    CASE file.kind = "missing" -> [ok |-> TRUE, config |-> Config_empty]
      [] file.kind = "unreadable" -> [ok |-> FALSE, config |-> Config_empty]
      [] file.kind = "garbage" -> [ok |-> FALSE, config |-> Config_empty]
      [] file.kind = "json" ->
            IF validate(file.config) THEN [ok |-> TRUE, config |-> file.config]
            ELSE [ok |-> FALSE, config |-> Config_empty]

---------------------------------------------------------------------------
(* director.rs: build_routing_state *)

\* lines 228-232: the result g of get_or_create is pushed unless it is an error
push_ref(st, g, weight) ==
    [ok |-> g.ok, pool |-> g.pool,
     refs |-> IF g.ok THEN Append(st.refs, [key |-> g.key, weight |-> weight]) ELSE st.refs]

\* the get_or_create loop over one backend list (lines 227-233, 275-281);
\* st = [ok, pool, refs]
RECURSIVE create_refs(_, _, _, _)
create_refs(bs, st, n, refused) ==
    IF bs = <<>> \/ ~st.ok THEN st
    ELSE create_refs(Tail(bs),
                     push_ref(st,
                              get_or_create(st.pool, Head(bs).address, Head(bs).port, n,
                                            refused),
                              Head(bs).weight),
                     n, refused)

\* PathMatchCompiled::from_config
PathMatchCompiled_from_config(pm) ==
    CASE pm.type = "Exact" -> [ok |-> TRUE, pm |-> Some([kind |-> "Exact", value |-> pm.value])]
      [] pm.type = "PathPrefix" ->
            [ok |-> TRUE, pm |-> Some([kind |-> "PathPrefix", value |-> pm.value])]
      [] pm.type = "RegularExpression" ->
            [ok |-> pm.compiles, pm |-> Some([kind |-> "Regex", accepts |-> pm.accepts])]

\* HeaderMatchCompiled::from_config: the name is lowercased
HeaderMatchCompiled_from_config(hm) ==
    IF hm.type = "Exact"
    THEN [ok |-> TRUE,
          m |-> [kind |-> "Exact", name |-> to_lowercase(hm.name), value |-> hm.value]]
    ELSE [ok |-> hm.compiles,
          m |-> [kind |-> "Regex", name |-> to_lowercase(hm.name), accepts |-> hm.accepts]]

\* QueryParamMatchCompiled::from_config: the name is kept as written
QueryParamMatchCompiled_from_config(qpm) ==
    IF qpm.type = "Exact"
    THEN [ok |-> TRUE, m |-> [kind |-> "Exact", name |-> qpm.name, value |-> qpm.value]]
    ELSE [ok |-> qpm.compiles,
          m |-> [kind |-> "Regex", name |-> qpm.name, accepts |-> qpm.accepts]]

\* lines 243-257: iter().map(from_config).collect() over compiled results cs
collect_compiled(cs) ==
    [ok |-> \A i \in 1..Len(cs) : cs[i].ok, list |-> [i \in 1..Len(cs) |-> cs[i].m]]

compile_headers(headers) ==
    collect_compiled([i \in 1..Len(headers) |-> HeaderMatchCompiled_from_config(headers[i])])

compile_query_params(query_params) ==
    collect_compiled([i \in 1..Len(query_params) |->
                         QueryParamMatchCompiled_from_config(query_params[i])])

\* lines 235-241
compile_path_match(path_match) ==
    IF path_match = None THEN [ok |-> TRUE, pm |-> None]
    ELSE PathMatchCompiled_from_config(path_match[1])

\* lines 259-266: c the backend references, pm, hs and qs the compiled matches
push_entry(route, c, pm, hs, qs, entries) ==
    [ok |-> c.ok /\ pm.ok /\ hs.ok /\ qs.ok, pool |-> c.pool,
     entries |-> IF c.ok /\ pm.ok /\ hs.ok /\ qs.ok
                 THEN Append(entries,
                             [path_match |-> pm.pm, method |-> route.method,
                              headers |-> hs.list, query_params |-> qs.list,
                              backends |-> c.refs, priority |-> route.priority])
                 ELSE entries]

\* the loop over the routes of one vhost (lines 223-267); st = [ok, pool, entries]
RECURSIVE build_route_entries(_, _, _, _)
build_route_entries(routes, st, n, refused) ==
    IF routes = <<>> \/ ~st.ok THEN st
    ELSE build_route_entries(
             Tail(routes),
             push_entry(Head(routes),
                        create_refs(Head(routes).backends,
                                    [ok |-> TRUE, pool |-> st.pool, refs |-> <<>>], n, refused),
                        compile_path_match(Head(routes).path_match),
                        compile_headers(Head(routes).headers),
                        compile_query_params(Head(routes).query_params),
                        st.entries),
             n, refused)

\* an insertion that puts an entry in front of the entries of its own priority
RECURSIVE insert_before_equal(_, _)
insert_before_equal(sorted, e) ==
    IF sorted = <<>> THEN <<e>>
    ELSE IF Head(sorted).priority > e.priority
         THEN <<Head(sorted)>> \o insert_before_equal(Tail(sorted), e)
         ELSE <<e>> \o sorted

\* Vec::sort_by(|a, b| b.priority.cmp(&a.priority)): a stable sort, priority descending
RECURSIVE insert_by_priority(_, _)
insert_by_priority(sorted, e) ==
    IF sorted = <<>> THEN <<e>>
    ELSE IF Head(sorted).priority >= e.priority
         THEN <<Head(sorted)>> \o insert_by_priority(Tail(sorted), e)
         ELSE <<e>> \o sorted

RECURSIVE sort_by_priority(_)
sort_by_priority(entries) ==
    IF entries = <<>> THEN <<>>
    ELSE insert_by_priority(sort_by_priority(SubSeq(entries, 1, Len(entries) - 1)),
                            entries[Len(entries)])

\* lines 282-289: d the references built from default_backends
push_default(sorted, d) ==
    [ok |-> d.ok, pool |-> d.pool,
     entries |-> Append(sorted,
                        [path_match |-> None, method |-> None, headers |-> <<>>,
                         query_params |-> <<>>, backends |-> d.refs, priority |-> 0])]

\* lines 272-290 on the sorted entries
add_default_route(default_backends, pool, sorted, n, refused) ==
    IF default_backends = <<>> THEN [ok |-> TRUE, pool |-> pool, entries |-> sorted]
    ELSE push_default(sorted,
                      create_refs(default_backends,
                                  [ok |-> TRUE, pool |-> pool, refs |-> <<>>], n, refused))

\* lines 269-290: sort the routes, then push the default route when
\* default_backends is non-empty; b = [ok, pool, entries] from the route loop
finish_route_entries(vhost, b, n, refused) ==
    IF ~b.ok THEN b
    ELSE add_default_route(vhost.default_backends, b.pool, sort_by_priority(b.entries),
                           n, refused)

\* lines 220-290 for one vhost
build_vhost(vhost, pool, n, refused) ==
    finish_route_entries(vhost,
                         build_route_entries(vhost.routes,
                                             [ok |-> TRUE, pool |-> pool, entries |-> <<>>],
                                             n, refused),
                         n, refused)

\* lines 292-297: f = [ok, pool, entries] the route entries of vhost hostname
add_vhost(st, hostname, f) ==
    IF ~f.ok THEN [st EXCEPT !.ok = FALSE, !.pool = f.pool]
    ELSE IF starts_with(hostname, <<"*", ".">>)
    THEN [st EXCEPT !.pool = f.pool, !.wildcards = Append(@, <<hostname, f.entries>>)]
    ELSE [st EXCEPT !.pool = f.pool,
                    !.exact = [h \in DOMAIN @ \cup {hostname} |->
                                  IF h = hostname THEN f.entries ELSE @[h]]]

\* the loop over config.vhosts in the map's iteration order (lines 219-298);
\* st = [ok, pool, exact, wildcards]
RECURSIVE build_vhosts(_, _, _, _)
build_vhosts(vhosts, st, n, refused) ==
    IF vhosts = <<>> \/ ~st.ok THEN st
    ELSE build_vhosts(Tail(vhosts),
                      add_vhost(st, Head(vhosts).hostname,
                                build_vhost(Head(vhosts), st.pool, n, refused)),
                      n, refused)

\* lines 300-304
routing_state_of(b) ==
    [ok |-> b.ok, pool |-> b.pool,
     routing |-> [exact |-> b.exact, wildcards |-> b.wildcards, default |-> None]]

\* build_routing_state: [ok, routing, pool]
build_routing_state(config, backend_pool, n, refused) ==
    routing_state_of(build_vhosts(config.vhosts,
                                  [ok |-> TRUE, pool |-> backend_pool, exact |-> <<>>,
                                   wildcards |-> <<>>],
                                  n, refused))

route_keys(routes) ==
    UNION {{routes[i].backends[j].key : j \in 1..Len(routes[i].backends)} :
              i \in 1..Len(routes)}

collect_referenced_backends(r) ==
    UNION {route_keys(r.exact[h]) : h \in DOMAIN r.exact}
    \cup UNION {route_keys(r.wildcards[i][2]) : i \in 1..Len(r.wildcards)}
    \cup (IF r.default = None THEN {}
          ELSE {r.default[1][j].key : j \in 1..Len(r.default[1])})

---------------------------------------------------------------------------
(* GhostDirector: reload and resolve as steps between the atomic loads    *)
(* and stores of the two ArcSwap fields                                   *)

\* the largest number of reload calls of one behaviour
MaxReloads == 2

\* the threads that call reload (one: reloads run one at a time) and resolve
Callers == {"admin"}
Workers == {"w1"}

H_ax == <<"a", ".", "x">>
H_cx == <<"c", ".", "x">>
Root == <<"/">>

B1 == [address |-> "10.0.0.1", port |-> 80, weight |-> 1]
B2 == [address |-> "10.0.0.2", port |-> 80, weight |-> 2]
BName == [address |-> "backend.svc", port |-> 80, weight |-> 1]
BZero == [address |-> "10.0.0.1", port |-> 80, weight |-> 0]

CatchAll(bs, priority) ==
    [path_match |-> None, method |-> None, headers |-> <<>>, query_params |-> <<>>,
     backends |-> bs, priority |-> priority]

OneVhost(hostname, bs) ==
    [version |-> 2,
     vhosts |-> <<[hostname |-> hostname, routes |-> <<CatchAll(bs, 1)>>,
                   default_backends |-> <<>>]>>,
     default |-> None]

\* what reload can find at config_path
Files ==
    {[kind |-> "missing"], [kind |-> "unreadable"], [kind |-> "garbage"]}
    \cup {[kind |-> "json", config |-> c] :
             c \in {OneVhost(H_ax, <<B1>>), OneVhost(H_ax, <<B2>>),
                    OneVhost(H_ax, <<B1, B2>>), OneVhost(H_cx, <<B1, BName>>),
                    OneVhost(H_ax, <<BZero>>),
                    [OneVhost(H_ax, <<B1>>) EXCEPT !.version = 1]}}

\* the keys whose native backend the host refuses to build during one reload
Refusals == {{}, {"10.0.0.2:80"}}

Request(host, url) == [host |-> host, url |-> url, method |-> "GET", headers |-> <<>>]

Requests ==
    {Request(Some(H_ax), Root), Request(Some(H_cx), Root), Request(None, Root)}

\* the values rng.gen_range can return for the backend lists above
Draws == 0..(B1.weight + B2.weight - 1)

EmptyRouting == [exact |-> <<>>, wildcards |-> <<>>, default |-> None]

IdleReload ==
    [pc |-> "idle", n |-> 0, result |-> "none", current_backends |-> <<>>,
     old_routing |-> EmptyRouting, new_routing |-> None, backend_pool |-> None]

IdleResolve ==
    [pc |-> "idle", key |-> None, routing_by |-> None, backends_by |-> None,
     result |-> "none", backend |-> None]

\* GhostDirector::new is given the pair one successful build produced
InitialBuilds ==
    {b \in {build_routing_state(load_v2(f).config, <<>>, 0, {}) :
                f \in {x \in Files : load_v2(x).ok}} : b.ok}

DirInit ==
    /\ \E b \in InitialBuilds :
           /\ routing = b.routing
           /\ backends = b.pool
    /\ routing_by = 0
    /\ backends_by = 0
    /\ reloads = 0
    /\ rl = [c \in Callers |-> IdleReload]
    /\ rs = [w \in Workers |-> IdleResolve]

PureIdle == args = None /\ ret = None /\ StatsIdle /\ NoBody /\ LibIdle

\* lines 386-391: b the result of build_routing_state on the clone
reload_built(n, current_backends, old_routing, b) ==
    IF ~b.ok
    THEN [pc |-> "idle", n |-> n, result |-> "build_err",
          current_backends |-> current_backends, old_routing |-> old_routing,
          new_routing |-> None, backend_pool |-> None]
    ELSE [pc |-> "store_routing", n |-> n, result |-> "none",
          current_backends |-> current_backends, old_routing |-> old_routing,
          new_routing |-> Some(b.routing),
          backend_pool |-> Some(retain_only(b.pool,
                                            collect_referenced_backends(b.routing)))]

\* lines 379-391: l the result of config::load
reload_loaded(n, current_backends, old_routing, l, refused) ==
    IF ~l.ok
    THEN [pc |-> "idle", n |-> n, result |-> "load_err",
          current_backends |-> current_backends, old_routing |-> old_routing,
          new_routing |-> None, backend_pool |-> None]
    ELSE reload_built(n, current_backends, old_routing,
                      build_routing_state(l.config, current_backends, n, refused))

\* reload without the clone of line 380: get_or_create works on the published pool
ReloadPrepare_on_published_pool(c, file, refused) ==
    /\ rl[c].pc = "idle"
    /\ reloads < MaxReloads
    /\ reloads' = reloads + 1
    /\ rl' = [rl EXCEPT ![c] = reload_loaded(reloads + 1, backends, routing,
                                             load_v2(file), refused)]
    /\ backends' = build_routing_state(load_v2(file).config, backends, reloads + 1,
                                       refused).pool
    /\ UNCHANGED <<routing, routing_by, backends_by, rs, args, ret, statVars, body, libVars>>

\* reload up to the first store (lines 377-391): load the pool, clone it, load
\* the file, build the routing state on the clone, retain the referenced keys
ReloadPrepare(c, file, refused) ==
    /\ rl[c].pc = "idle"
    /\ reloads < MaxReloads
    /\ reloads' = reloads + 1
    /\ rl' = [rl EXCEPT ![c] = reload_loaded(reloads + 1, backends, routing,
                                             load_v2(file), refused)]
    /\ UNCHANGED <<routing, backends, routing_by, backends_by, rs, args, ret, statVars, body, libVars>>

\* line 394: self.routing.store(new_routing)
ReloadStoreRouting(c) ==
    /\ rl[c].pc = "store_routing"
    /\ routing' = rl[c].new_routing[1]
    /\ routing_by' = rl[c].n
    /\ rl' = [rl EXCEPT ![c].pc = "store_backends"]
    /\ UNCHANGED <<backends, backends_by, reloads, rs, args, ret, statVars, body, libVars>>

\* lines 395-397: self.backends.store(backend_pool); Ok(())
ReloadStoreBackends(c) ==
    /\ rl[c].pc = "store_backends"
    /\ backends' = rl[c].backend_pool[1]
    /\ backends_by' = rl[c].n
    /\ rl' = [rl EXCEPT ![c].pc = "idle", ![c].result = "ok",
                        ![c].new_routing = None, ![c].backend_pool = None]
    /\ UNCHANGED <<routing, routing_by, reloads, rs, args, ret, statVars, body, libVars>>

resolve_returns(by, result) ==
    [pc |-> "done", key |-> None, routing_by |-> by, backends_by |-> None,
     result |-> result, backend |-> None]

\* line 443: the selected reference, if any
resolve_selected(by, backend_ref) ==
    IF backend_ref = None THEN resolve_returns(Some(by), "no_backend")
    ELSE [pc |-> "lookup", key |-> Some(backend_ref[1].key), routing_by |-> Some(by),
          backends_by |-> None, result |-> "none", backend |-> None]

\* lines 434-443: m the result of match_host_and_path, r the random draw
resolve_matched(by, m, r) ==
    IF m = None
    THEN [draw_ok |-> r = 0, locals |-> resolve_returns(Some(by), "not_found")]
    ELSE [draw_ok |-> possible_draw(m[1], r),
          locals |-> resolve_selected(by, select_backend_weighted(m[1], r))]

\* lines 407-443: host the result of get_host_header, pq of extract_path_and_query
resolve_loaded(r_state, by, host, pq, req, r) ==
    IF host = None
    THEN [draw_ok |-> r = 0, locals |-> resolve_returns(None, "no_backend")]
    ELSE resolve_matched(by,
                         match_host_and_path(r_state, host[1], pq[1], req.method,
                                             req.headers, pq[2]),
                         r)

resolve_to(w, out) ==
    /\ out.draw_ok
    /\ rs' = [rs EXCEPT ![w] = out.locals]

\* resolve up to the weighted selection (lines 404-443): load routing, match,
\* select; a call starts when the worker's previous call has returned
ResolveMatch(w, req, r) ==
    /\ rs[w].pc # "lookup"
    /\ resolve_to(w, resolve_loaded(routing, routing_by, get_host_header(req.host),
                                    extract_path_and_query(req.url), req, r))
    /\ UNCHANGED <<routing, backends, routing_by, backends_by, reloads, rl, args, ret, statVars, body, libVars>>

\* lines 446-449: found the handle backends.get(key) returned, if any
resolve_found(locals, by, found) ==
    [locals EXCEPT !.pc = "done", !.backends_by = Some(by),
                   !.result = IF found = None THEN "no_backend" ELSE "backend",
                   !.backend = found]

\* resolve from the load of the pool (lines 446-449)
ResolveLookup(w) ==
    /\ rs[w].pc = "lookup"
    /\ rs' = [rs EXCEPT ![w] = resolve_found(rs[w], backends_by,
                                             BackendPool_get(backends, rs[w].key[1]))]
    /\ UNCHANGED <<routing, backends, routing_by, backends_by, reloads, rl, args, ret, statVars, body, libVars>>

Init == DirInit /\ PureIdle

Next ==
    \/ \E c \in Callers, file \in Files, refused \in Refusals :
           ReloadPrepare(c, file, refused)
    \/ \E c \in Callers : ReloadStoreRouting(c)
    \/ \E c \in Callers : ReloadStoreBackends(c)
    \/ \E w \in Workers, req \in Requests, r \in Draws : ResolveMatch(w, req, r)
    \/ \E w \in Workers : ResolveLookup(w)

Spec == Init /\ [][Next]_vars

---------------------------------------------------------------------------
(* Properties of reload and resolve, checked under Spec *)

ReloadIdle == \A c \in Callers : rl[c].pc = "idle"

ReloadFailed(c) == rl[c].pc = "idle" /\ rl[c].result \in {"load_err", "build_err"}

ReloadSucceeded(c) == rl[c].pc = "idle" /\ rl[c].result = "ok"

\* C1: every resolve call that reached the pool used a routing table and a pool
\* stored by the same reload (or both by new())
ResolveUsesOneSnapshot ==
    \A w \in Workers :
        rs[w].pc = "done" /\ rs[w].backends_by # None =>
            rs[w].routing_by = rs[w].backends_by

\* C2: a resolve call that selected a key from the routing table it loaded finds
\* the key in the pool it consults: it never returns None from a pool miss
SelectedKeyFoundInPool ==
    \A w \in Workers :
        rs[w].pc = "done" /\ rs[w].key # None => rs[w].result # "no_backend"

\* C3: when reload has returned an error, the published routing state and the
\* published pool are the ones the call found when it started
FailedReloadLeavesPublishedState ==
    \A c \in Callers :
        ReloadFailed(c) =>
            routing = rl[c].old_routing /\ backends = rl[c].current_backends

\* a reload failed in build_routing_state on a pool that lacks the key of B1,
\* which the failing configuration creates before it fails
FailedReloadAfterCreate ==
    \E c \in Callers :
        /\ ReloadFailed(c)
        /\ rl[c].result = "build_err"
        /\ backend_key(B1.address, B1.port) \notin DOMAIN backends

\* C4: with no reload in progress, every key referenced by a route of the
\* published routing state has an entry in the published pool
ReferencedKeysArePooled ==
    ReloadIdle => collect_referenced_backends(routing) \subseteq DOMAIN backends

\* MaxReloads reloads have run, the last one failed, and routes reference keys
ReferencedAfterReloads ==
    /\ reloads = MaxReloads
    /\ \E c \in Callers : ReloadFailed(c)
    /\ routing_by > 0
    /\ collect_referenced_backends(routing) # {}

\* C5: after a successful reload the published pool has no key that no route of
\* the published routing state references
PoolHasOnlyReferencedKeys ==
    \A c \in Callers :
        ReloadSucceeded(c) =>
            DOMAIN backends \subseteq collect_referenced_backends(routing)

\* a successful reload evicted a key that the pool it cloned held
ReloadEvictedKey ==
    \E c \in Callers :
        /\ ReloadSucceeded(c)
        /\ DOMAIN rl[c].current_backends \ DOMAIN backends # {}
        /\ DOMAIN backends # {}

\* C6: after a successful reload a key that the cloned pool held has the handle
\* it had there, and the handles this reload created are those of the other keys
SharedHandleKept ==
    \A c \in Callers :
        ReloadSucceeded(c) =>
            \A k \in DOMAIN backends :
                IF k \in DOMAIN rl[c].current_backends
                THEN backends[k] = rl[c].current_backends[k]
                ELSE backends[k].by = rl[c].n

\* a successful reload kept the handle of a key both configurations reference
\* and created the handle of a key only the new one references
ReloadKeptAndCreated ==
    \E c \in Callers :
        /\ ReloadSucceeded(c)
        /\ \E k \in collect_referenced_backends(rl[c].old_routing)
                       \cap collect_referenced_backends(routing) :
               backends[k].by < rl[c].n
        /\ \E k \in DOMAIN backends : k \notin DOMAIN rl[c].current_backends

---------------------------------------------------------------------------
(* The pure functions of director.rs, each called on inputs drawn from    *)
(* bounded sets; the director itself stays as constructed                 *)

DirIdle ==
    /\ routing = EmptyRouting
    /\ backends = <<>>
    /\ routing_by = 0
    /\ backends_by = 0
    /\ reloads = 0
    /\ rl = [c \in Callers |-> IdleReload]
    /\ rs = [w \in Workers |-> IdleResolve]
    /\ StatsIdle
    /\ NoBody
    /\ LibIdle

dirVars == <<routing, backends, routing_by, backends_by, reloads, rl, rs>>

SeqsUpTo(S, n) == UNION {[1..k -> S] : k \in 0..n}

\* matches_wildcard on every host of up to MaxHostLen characters and every
\* pattern "*." X with X of up to MaxSuffixLen characters
MaxHostLen == 4
MaxSuffixLen == 2

HostChars == {"a", ".", "x"}

WildcardHosts == SeqsUpTo(HostChars, MaxHostLen)

WildcardPatterns == {<<"*", ".">> \o x : x \in SeqsUpTo(HostChars, MaxSuffixLen)}

WildcardInit ==
    /\ DirIdle
    /\ args \in [pattern : WildcardPatterns, host : WildcardHosts]
    /\ ret = None

CallMatchesWildcard ==
    /\ ret = None
    /\ ret' = Some(matches_wildcard(args.pattern, args.host))
    /\ UNCHANGED <<dirVars, statVars, body, libVars, args>>

SpecWildcard == WildcardInit /\ [][CallMatchesWildcard]_vars

\* C8: matches_wildcard("*." X, host) is true exactly when host is L "." X for
\* a non-empty label L without '.'
WildcardMatchesOneLabel ==
    ret # None =>
        (ret[1] <=>
            \E L \in SeqsUpTo(HostChars \ {"."}, MaxHostLen) :
                /\ L # <<>>
                /\ args.host = L \o <<".">> \o slice_from(args.pattern, 2))

\* a host with one label in front of a non-empty X was matched
WildcardMatched ==
    /\ ret = Some(TRUE)
    /\ Len(args.pattern) > 2
    /\ Len(args.host) = MaxHostLen

---------------------------------------------------------------------------
(* build_routing_state on one vhost with up to MaxRoutes routes *)

MaxRoutes == 3

Priorities == {-1, 0, 1}

\* route i of a vhost matches the path "/i" exactly: the path names the rule
RuleRoute(i, priority) ==
    [path_match |-> Some([type |-> "Exact", value |-> <<"/", ToString(i)>>]),
     method |-> None, headers |-> <<>>, query_params |-> <<>>,
     backends |-> <<B1>>, priority |-> priority]

BuildConfigs ==
    {[version |-> 2,
      vhosts |-> <<[hostname |-> H_ax,
                    routes |-> [i \in 1..Len(ps) |-> RuleRoute(i, ps[i])],
                    default_backends |-> d]>>,
      default |-> None] : ps \in SeqsUpTo(Priorities, MaxRoutes), d \in {<<>>, <<B2>>}}

BuildInit ==
    /\ DirIdle
    /\ args \in BuildConfigs
    /\ ret = None

CallBuildRoutingState ==
    /\ ret = None
    /\ ret' = Some(build_routing_state(args, <<>>, 0, {}))
    /\ UNCHANGED <<dirVars, statVars, body, libVars, args>>

SpecBuild == BuildInit /\ [][CallBuildRoutingState]_vars

\* the route list built for the vhost, and its part in front of the default route
BuiltEntries == ret[1].routing.exact[H_ax]

BuiltRules == SubSeq(BuiltEntries, 1, Len(args.vhosts[1].routes))

\* the position in the configuration of the rule an entry was built from
rule_index(e) ==
    CHOOSE i \in 1..Len(args.vhosts[1].routes) :
        args.vhosts[1].routes[i].path_match[1].value = e.path_match[1].value

IsDefaultRoute(e) ==
    /\ e.path_match = None /\ e.method = None
    /\ e.headers = <<>> /\ e.query_params = <<>>
    /\ e.priority = 0

---------------------------------------------------------------------------
(* Dispatch: build_routing_state on a configuration, then resolve's steps *)
(* up to the selection on a request                                       *)

H_Ax == <<"A", ".", "x">>
W_x == <<"*", ".", "x">>
P_api == <<"/", "a", "p", "i">>
P_web == <<"/", "w", "e", "b">>

PrefixRoute(prefix, bs) ==
    [path_match |-> Some([type |-> "PathPrefix", value |-> prefix]), method |-> None,
     headers |-> <<>>, query_params |-> <<>>, backends |-> bs, priority |-> 1]

VhostOf(hostname, routes) ==
    [hostname |-> hostname, routes |-> routes, default_backends |-> <<>>]

DispatchConfigs ==
    {[version |-> 2, vhosts |-> v, default |-> None] :
        v \in {<<VhostOf(H_ax, <<PrefixRoute(P_api, <<B1>>)>>),
                 VhostOf(W_x, <<CatchAll(<<B2>>, 1)>>)>>,
               <<VhostOf(H_ax, <<CatchAll(<<B1>>, 1)>>),
                 VhostOf(W_x, <<CatchAll(<<B2>>, 1)>>)>>,
               <<VhostOf(H_Ax, <<CatchAll(<<B1>>, 1)>>)>>,
               <<VhostOf(W_x, <<CatchAll(<<B2>>, 1)>>)>>,
               <<VhostOf(H_ax, <<CatchAll(<<>>, 1), PrefixRoute(P_api, <<B1>>)>>),
                 VhostOf(W_x, <<CatchAll(<<B2>>, 1)>>)>>}}

DispatchHosts ==
    {Some(H_ax), Some(H_Ax), Some(H_ax \o <<":", "8", "0">>),
     Some(H_Ax \o <<":", "8">>), Some(H_cx), Some(<<"x">>),
     Some(<<"b", ".", "a", ".", "x">>)}

DispatchUrls == {Root, P_api, P_web}

DispatchInit ==
    /\ DirIdle
    /\ args \in [config : DispatchConfigs,
                 req : {Request(h, u) : h \in DispatchHosts, u \in DispatchUrls}]
    /\ ret = None

DispatchBuild ==
    /\ ret = None
    /\ ret' = <<build_routing_state(args.config, <<>>, 0, {})>>
    /\ UNCHANGED <<dirVars, statVars, body, libVars, args>>

DispatchResolve ==
    /\ Len(ret) = 1
    /\ ret[1].ok
    /\ ret' = Append(ret, resolve_loaded(ret[1].routing, 0, get_host_header(args.req.host),
                                         extract_path_and_query(args.req.url), args.req,
                                         0).locals)
    /\ UNCHANGED <<dirVars, statVars, body, libVars, args>>

DispatchNext == DispatchBuild \/ DispatchResolve

SpecDispatch == DispatchInit /\ [][DispatchNext]_vars

\* the Host of the request, port stripped and lowercased
RequestHost == to_lowercase(split_first(args.req.host[1], ":"))

RequestPath == extract_path_and_query(args.req.url)[1]

\* the keys of a backend list of the configuration
config_keys(bs) == {backend_key(bs[i].address, bs[i].port) : i \in 1..Len(bs)}

\* C7: when the Host equals the name of an exact vhost, that vhost's routes
\* alone decide the result: the key of its first matching route, NotFound if none
ExactVhostDecidesAlone ==
    Len(ret) = 2 /\ RequestHost \in DOMAIN ret[1].routing.exact =>
        IF match_routes(ret[1].routing.exact[RequestHost], RequestPath, "GET", <<>>, None)
               = None
        THEN ret[2].result = "not_found"
        ELSE /\ ret[2].key # None
             /\ ret[2].key[1] \in route_keys(ret[1].routing.exact[RequestHost])

\* C9: a request whose Host equals a configured vhost name up to letter case and
\* port is dispatched to that vhost, whatever the case of the configured name
HostCaseAndPortIndependent ==
    Len(ret) = 2 =>
        \A i \in 1..Len(args.config.vhosts) :
            /\ to_lowercase(args.config.vhosts[i].hostname) = RequestHost
            /\ args.config.vhosts[i].routes[1].path_match = None
            => /\ ret[2].key # None
               /\ ret[2].key[1] \in config_keys(args.config.vhosts[i].routes[1].backends)

\* the index of the first route of the list whose conditions the request meets,
\* 0 if there is none
first_satisfied(routes) ==
    least_or_zero({i \in 1..Len(routes) :
                      route_conditions(routes[i], RequestPath, args.req.method,
                                       args.req.headers,
                                       extract_path_and_query(args.req.url)[2])})

first_satisfied_is_empty(routes, i) == i # 0 /\ routes[i].backends = <<>>

\* C12: a request whose first matching route of the selected vhost has an empty
\* backend list resolves to the InternalError synthetic backend: no endpoint of a
\* later route, of a wildcard vhost or of a default is selected, and the result is
\* not 'no backend' or NotFound
EmptyBackendsRouteIsInternalError ==
    /\ Len(ret) = 2
    /\ RequestHost \in DOMAIN ret[1].routing.exact
    /\ first_satisfied_is_empty(ret[1].routing.exact[RequestHost],
                                first_satisfied(ret[1].routing.exact[RequestHost]))
    => ret[2].key = None /\ ret[2].result = "internal_error"

---------------------------------------------------------------------------
(* vhost_director.rs match_routes on lists of up to MaxMatchRoutes routes *)

MaxMatchRoutes == 2

P_a == <<"/", "a">>
P_b == <<"/", "b">>
N_h == <<"h">>
N_q == <<"q">>

\* a compiled route with no condition
PlainEntry ==
    [path_match |-> None, method |-> None, headers |-> <<>>, query_params |-> <<>>,
     backends |-> <<>>, priority |-> 0, filters |-> None]

EntryShapes ==
    {PlainEntry,
     [PlainEntry EXCEPT !.path_match = Some([kind |-> "Exact", value |-> P_a])],
     [PlainEntry EXCEPT !.path_match = Some([kind |-> "Regex", accepts |-> {P_b}])],
     [PlainEntry EXCEPT !.method = Some("GET")],
     [PlainEntry EXCEPT !.headers = <<[kind |-> "Exact", name |-> N_h, value |-> "v"]>>],
     [PlainEntry EXCEPT !.query_params =
                            <<[kind |-> "Exact", name |-> N_q, value |-> <<"1">>]>>],
     [PlainEntry EXCEPT !.method = Some("GET"),
                        !.query_params =
                            <<[kind |-> "Regex", name |-> N_q, accepts |-> {<<"2">>}]>>]}

\* route i of a list refers to the backend key "i"
NumberedEntries(shapes) ==
    [i \in 1..Len(shapes) |->
        [shapes[i] EXCEPT !.backends = <<[key |-> ToString(i), weight |-> 1]>>]]

MatchInputs ==
    [routes : {NumberedEntries(sh) : sh \in SeqsUpTo(EntryShapes, MaxMatchRoutes)},
     path : {P_a, P_b},
     method : {"GET", "get", "POST"},
     headers : {<<>>, [n \in {N_h} |-> "v"], [n \in {N_h} |-> "w"]},
     query : {None, Some(<<"q", "=", "1">>), Some(<<"q", "=", "2", "&", "q", "=", "1">>)}]

MatchInit ==
    /\ DirIdle
    /\ args \in MatchInputs
    /\ ret = None

CallMatchRoutes ==
    /\ ret = None
    /\ ret' = Some(vhost_match_routes(args.routes, args.path, args.method, args.headers,
                                      args.query))
    /\ UNCHANGED <<dirVars, statVars, body, libVars, args>>

SpecMatch == MatchInit /\ [][CallMatchRoutes]_vars

\* every present condition of route i holds for the request; an absent one passes
ConditionsHold(i) ==
    /\ \/ args.routes[i].path_match = None
       \/ PathMatchCompiled_matches(args.routes[i].path_match[1], args.path)
    /\ \/ args.routes[i].method = None
       \/ args.routes[i].method[1] = args.method
    /\ \A k \in 1..Len(args.routes[i].headers) :
           HeaderMatchCompiled_matches(args.routes[i].headers[k], args.headers)
    /\ \/ args.routes[i].query_params = <<>>
       \/ /\ args.query # None
          /\ \A k \in 1..Len(args.routes[i].query_params) :
                 QueryParamMatchCompiled_matches(args.routes[i].query_params[k],
                                                 args.query[1])

\* C11: match_routes returns the first route in list order whose present
\* conditions all hold, and None only when no route satisfies its conditions
MatchRoutesFirstSatisfying ==
    ret # None =>
        IF \E i \in 1..Len(args.routes) : ConditionsHold(i)
        THEN \E i \in 1..Len(args.routes) :
                 /\ ConditionsHold(i)
                 /\ \A j \in 1..(i - 1) : ~ConditionsHold(j)
                 /\ ret[1] = Some([backends |-> args.routes[i].backends,
                                   filters |-> args.routes[i].filters,
                                   matched_path |-> args.routes[i].path_match])
        ELSE ret[1] = None

\* a request without query string passed over a first route with a
\* query-parameter match and was given the second route
MatchedSecondAfterQueryRoute ==
    /\ ret # None
    /\ ret[1] # None
    /\ Len(args.routes) = MaxMatchRoutes
    /\ args.routes[1].query_params # <<>>
    /\ args.routes[1].method = None
    /\ args.query = None
    /\ ret[1][1].backends = args.routes[MaxMatchRoutes].backends

---------------------------------------------------------------------------
(* select_backend_weighted on lists of up to MaxRefs references of weight *)
(* up to MaxWeight, for every draw gen_range(0..total_weight) can return  *)

MaxRefs == 3
MaxWeight == 2

\* the lists of WeightedBackendRef; the key of a reference is its position
WeightedRefLists ==
    UNION {{[i \in 1..n |-> [key |-> ToString(i), weight |-> w[i]]] :
               w \in [1..n -> 0..MaxWeight]} : n \in 0..MaxRefs}

SelectInit ==
    /\ DirIdle
    /\ args \in {[refs |-> refs, r |-> r] :
                    refs \in WeightedRefLists, r \in 0..(MaxRefs * MaxWeight + MaxWeight)}
    /\ possible_draw(args.refs, args.r)
    /\ ret = None

CallSelectBackendWeighted ==
    /\ ret = None
    /\ ret' = <<select_backend_weighted(args.refs, args.r)>>
    /\ UNCHANGED <<dirVars, statVars, body, libVars, args>>

SpecSelect == SelectInit /\ [][CallSelectBackendWeighted]_vars

\* the sum of the weights of the first i references
cumulative_weight(refs, i) == sum_weights(SubSeq(refs, 1, i))

\* the draws of 0..total-1 for which the selection returns the i-th reference
draws_selecting(refs, i, total) ==
    {r \in 0..(total - 1) : select_backend_weighted(refs, r) = Some(refs[i])}

weighted_cases(refs, r, total, selected) ==
    total > 0 =>
        /\ \E i \in 1..Len(refs) :
               /\ r < cumulative_weight(refs, i)
               /\ \A j \in 1..(i - 1) : r >= cumulative_weight(refs, j)
               /\ selected = Some(refs[i])
        /\ selected[1].weight # 0
        /\ \A i \in 1..Len(refs) :
               Cardinality(draws_selecting(refs, i, total)) = refs[i].weight

\* C15: for at least two references of total weight S > 0 and a draw r in [0, S)
\* the selection is the first reference whose cumulative weight exceeds r (so the
\* loop returns and the fallback is not taken), exactly weight_i of the S draws
\* select reference i, and a reference of weight 0 is not selected; an empty list
\* gives None and a single reference gives that reference
SelectFirstCumulativeAboveDraw ==
    ret # None =>
        CASE Len(args.refs) = 0 -> ret[1] = None
          [] Len(args.refs) = 1 -> ret[1] = Some(args.refs[1])
          [] OTHER -> weighted_cases(args.refs, args.r, sum_weights(args.refs), ret[1])

SelectedAfterZeroWeight ==
    /\ ret # None
    /\ Len(args.refs) = 3
    /\ args.refs[1].weight = 0
    /\ args.refs[2].weight = 2
    /\ args.r = 2
    /\ ret[1] = Some(args.refs[3])

---------------------------------------------------------------------------
(* matches_path_prefix on every prefix of up to MaxPrefixLen characters   *)
(* and path of up to MaxPathLen characters, and on the documented cases   *)

MaxPrefixLen == 2
MaxPathLen == 3

PathChars == {"/", "a", "b"}

P_api2 == <<"/", "a", "p", "i", "2">>
P_api_slash == <<"/", "a", "p", "i", "/">>
P_api_v2 == <<"/", "a", "p", "i", "/", "v", "2">>
P_api_x == <<"/", "a", "p", "i", "/", "x">>

\* the cases of the doc comment (lines 715-718) and of test_matches_path_prefix
DocumentedPrefixCases ==
    {<<P_api, P_api>>, <<P_api, P_api_v2>>, <<P_api, P_api2>>,
     <<P_api_slash, P_api_slash>>, <<P_api_slash, P_api_x>>, <<P_api_slash, P_api>>}

PrefixInit ==
    /\ DirIdle
    /\ args \in (SeqsUpTo(PathChars, MaxPrefixLen) \X SeqsUpTo(PathChars, MaxPathLen))
                   \cup DocumentedPrefixCases
    /\ ret = None

CallMatchesPathPrefix ==
    /\ ret = None
    /\ ret' = <<matches_path_prefix(args[1], args[2])>>
    /\ UNCHANGED <<dirVars, statVars, body, libVars, args>>

SpecPrefix == PrefixInit /\ [][CallMatchesPathPrefix]_vars

\* path begins with the characters of p
begins_with(p, path) == Len(p) <= Len(path) /\ \A i \in 1..Len(p) : path[i] = p[i]

element_wise(p, path) ==
    \/ p = <<"/">>
    \/ path = p
    \/ /\ begins_with(p, path)
       /\ \/ Len(p) > 0 /\ p[Len(p)] = "/"
          \/ Len(path) > Len(p) /\ path[Len(p) + 1] = "/"

\* C16: matches_path_prefix(p, path) is true exactly when p is "/", or path
\* equals p, or path starts with p and either p ends with '/' or the character
\* of path right after p is '/'; "/api" matches "/api" and "/api/v2" but not
\* "/api2", and "/api/" matches "/api/" and "/api/x" but not "/api"
PathPrefixIsElementWise ==
    ret # None =>
        /\ ret[1] = element_wise(args[1], args[2])
        /\ args \in {<<P_api, P_api>>, <<P_api, P_api_v2>>, <<P_api_slash, P_api_slash>>,
                      <<P_api_slash, P_api_x>>} => ret[1] = TRUE
        /\ args \in {<<P_api, P_api2>>, <<P_api_slash, P_api>>} => ret[1] = FALSE

PrefixRefusedInsideElement ==
    ret = <<FALSE>> /\ args = <<P_api, P_api2>>

---------------------------------------------------------------------------
(* vhost_director.rs request filters.  The request (bereq) is a record of *)
(* its header lines in order, its URL and the room left for new header    *)
(* lines: set_header appends a line and fails when no room is left, then  *)
(* the filter returns the error at once (the ? of the call)               *)

\* the lowercase form of the header names the model uses
lower_name(name) ==
    CASE name = "A" -> "a"
      [] name = "Host" -> "host"
      [] name = "X-Ghost-Redirect-Config" -> "x-ghost-redirect-config"
      [] OTHER -> name

\* header names compare without regard to case
same_name(a, b) == lower_name(a) = lower_name(b)

\* bereq.unset_header(name): every line of that name goes
unset_header(headers, name) == SelectSeq(headers, LAMBDA l : ~same_name(l.name, name))

header_at(headers, i) == IF i = 0 THEN None ELSE Some(headers[i].value)

\* bereq.header(name): the value of the first line of that name
header(headers, name) ==
    header_at(headers,
              least_or_zero({i \in 1..Len(headers) : same_name(headers[i].name, name)}))

\* bereq.set_header(name, value)?
set_header(bereq, name, value) ==
    IF ~bereq.ok THEN bereq
    ELSE IF bereq.room = 0 THEN [bereq EXCEPT !.ok = FALSE]
    ELSE [bereq EXCEPT !.headers = Append(@, [name |-> name, value |-> value]),
                       !.room = @ - 1]

\* lines 756-758
RECURSIVE remove_headers(_, _)
remove_headers(names, headers) ==
    IF names = <<>> THEN headers
    ELSE remove_headers(Tail(names), unset_header(headers, Head(names)))

\* lines 761-764
RECURSIVE set_headers(_, _)
set_headers(actions, bereq) ==
    IF actions = <<>> \/ ~bereq.ok THEN bereq
    ELSE set_headers(Tail(actions),
                     set_header([bereq EXCEPT !.headers = unset_header(@, Head(actions).name)],
                                Head(actions).name, Head(actions).value))

\* an add that appends its own line and leaves the existing one
add_header_as_new_line(bereq, action, existing) ==
    set_header(bereq, action.name, action.value)

\* lines 769-779: existing the result of bereq.header(name)
add_header(bereq, action, existing) ==
    IF existing # None
    THEN set_header([bereq EXCEPT !.headers = unset_header(@, action.name)],
                    action.name, existing[1] \o <<",">> \o action.value)
    ELSE set_header(bereq, action.name, action.value)

\* lines 768-780
RECURSIVE add_headers(_, _)
add_headers(actions, bereq) ==
    IF actions = <<>> \/ ~bereq.ok THEN bereq
    ELSE add_headers(Tail(actions),
                     add_header(bereq, Head(actions), header(bereq.headers, Head(actions).name)))

\* apply_request_header_filter; the result's ok is FALSE when it returns Err
apply_request_header_filter(bereq, filter) ==
    add_headers(filter.add,
                set_headers(filter.set,
                            [bereq EXCEPT !.headers = remove_headers(filter.remove, @)]))

\* str::trim_end_matches('/')
RECURSIVE trim_end_matches(_)
trim_end_matches(s) ==
    IF s # <<>> /\ s[Len(s)] = "/" THEN trim_end_matches(SubSeq(s, 1, Len(s) - 1)) ELSE s

\* lines 981-986: remainder is segments[2], or "" when there are two segments
heuristic_joined(trimmed_new, remainder) ==
    IF remainder = <<>> THEN trimmed_new ELSE trimmed_new \o <<"/">> \o remainder

\* path.splitn(3, '/') of a path that starts with '/': slash is the index of the
\* next '/' in rest = path[1..], 0 when there is none
heuristic_split(rest, slash, new_prefix) ==
    heuristic_joined(trim_end_matches(new_prefix),
                     IF slash = 0 THEN <<>> ELSE slice_from(rest, slash))

\* replace_first_segment_heuristic
replace_first_segment_heuristic(path, new_prefix) ==
    IF starts_with(path, <<"/">>)
    THEN heuristic_split(slice_from(path, 1), find_char(slice_from(path, 1), "/"), new_prefix)
    ELSE new_prefix

\* lines 890-901 with the new prefix left untrimmed
replaced_prefix_untrimmed(remainder, trimmed_new, new_prefix) ==
    IF remainder = <<>> THEN (IF new_prefix = <<>> THEN <<"/">> ELSE new_prefix)
    ELSE IF starts_with(remainder, <<"/">>) THEN new_prefix \o remainder
    ELSE new_prefix \o <<"/">> \o remainder

\* lines 890-901
replaced_prefix(remainder, trimmed_new, new_prefix) ==
    IF remainder = <<>> THEN (IF trimmed_new = <<>> THEN <<"/">> ELSE trimmed_new)
    ELSE IF starts_with(remainder, <<"/">>) THEN trimmed_new \o remainder
    ELSE trimmed_new \o <<"/">> \o remainder

\* apply_replace_prefix_match: the new path and the tag of its log message
apply_replace_prefix_match(path, new_prefix, matched_path) ==
    CASE matched_path = None ->
            [path |-> replace_first_segment_heuristic(path, new_prefix), log |-> "Debug"]
      [] matched_path # None /\ matched_path[1].kind = "PathPrefix" ->
            IF starts_with(path, matched_path[1].value)
            THEN [path |-> replaced_prefix(slice_from(path, Len(matched_path[1].value)),
                                           trim_end_matches(new_prefix), new_prefix),
                  log |-> "Debug"]
            ELSE [path |-> path, log |-> "Error"]
      [] matched_path # None /\ matched_path[1].kind = "Exact" ->
            [path |-> new_prefix, log |-> "Debug"]
      [] matched_path # None /\ matched_path[1].kind = "Regex" ->
            [path |-> replace_first_segment_heuristic(path, new_prefix), log |-> "Error"]

\* bereq.set_url(url)?
set_url(bereq, url) ==
    IF ~bereq.ok THEN bereq
    ELSE IF bereq.room = 0 THEN [bereq EXCEPT !.ok = FALSE]
    ELSE [bereq EXCEPT !.url = url, !.room = @ - 1]

\* lines 811-815, 833-837: the new path with the query of the current URL
with_query(new_path, query) ==
    IF query # None THEN new_path \o <<"?">> \o query[1] ELSE new_path

\* lines 799-857: pq the result of extract_path_and_query on the current URL
rewrite_path(bereq, filter, matched_path, pq) ==
    CASE filter.path_type = None -> bereq
      [] filter.path_type = Some("ReplaceFullPath") ->
            IF filter.replace_full_path # None
            THEN set_url(bereq, with_query(filter.replace_full_path[1], pq[2]))
            ELSE bereq
      [] filter.path_type = Some("ReplacePrefixMatch") ->
            IF filter.replace_prefix_match # None
            THEN set_url(bereq,
                         with_query(apply_replace_prefix_match(
                                        pq[1], filter.replace_prefix_match[1],
                                        matched_path).path,
                                    pq[2]))
            ELSE bereq
      [] OTHER -> bereq

\* lines 794-797
rewrite_hostname(bereq, filter) ==
    IF filter.hostname # None
    THEN set_header([bereq EXCEPT !.headers = unset_header(@, "host")], "host",
                    filter.hostname[1])
    ELSE bereq

rewrite_path_of(bereq, filter, matched_path) ==
    IF ~bereq.ok THEN bereq
    ELSE rewrite_path(bereq, filter, matched_path, extract_path_and_query(bereq.url))

\* apply_url_rewrite_filter; the result's ok is FALSE when it returns Err
apply_url_rewrite_filter(bereq, filter, matched_path) ==
    rewrite_path_of(rewrite_hostname(bereq, filter), filter, matched_path)

\* store_filter_context: the serialized response filter goes into a header line
store_filter_context(bereq, filters) ==
    IF filters.response_header_modifier # None
    THEN set_header(bereq, "X-Ghost-Filter-Context",
                    [json |-> filters.response_header_modifier[1]])
    ELSE bereq

DigitValue(c) ==
    CASE c = "0" -> 0 [] c = "1" -> 1 [] c = "2" -> 2 [] c = "3" -> 3 [] c = "4" -> 4
      [] c = "5" -> 5 [] c = "6" -> 6 [] c = "7" -> 7 [] c = "8" -> 8 [] c = "9" -> 9
      [] OTHER -> -1

\* the digits of s read after acc; None for a character that is no digit or a
\* value above u16::MAX
RECURSIVE parse_digits(_, _)
parse_digits(s, acc) ==
    IF s = <<>> THEN Some(acc)
    ELSE IF DigitValue(Head(s)) < 0 \/ acc * 10 + DigitValue(Head(s)) > U16Max THEN None
    ELSE parse_digits(Tail(s), acc * 10 + DigitValue(Head(s)))

\* str::parse::<u16>(): digits after an optional '+'
parse_u16(s) ==
    IF s = <<>> \/ s = <<"+">> THEN None
    ELSE IF Head(s) = "+" THEN parse_digits(Tail(s), 0)
    ELSE parse_digits(s, 0)

\* str::rfind(c): the index of the last c, 0 when there is none
rfind_char(s, c) ==
    IF ~contains_char(s, c) THEN 0
    ELSE CHOOSE i \in 1..Len(s) : s[i] = c /\ \A j \in (i + 1)..Len(s) : s[j] # c

\* lines 1013-1021: colon the result of rfind(':'), port of the parse of the
\* characters after it
host_and_port_at(host_header, colon, port) ==
    IF colon # 0 /\ port # None
    THEN [hostname |-> SubSeq(host_header, 1, colon - 1), port |-> port]
    ELSE [hostname |-> host_header, port |-> None]

host_and_port(host_header, colon) ==
    host_and_port_at(host_header, colon,
                     IF colon = 0 THEN None ELSE parse_u16(slice_from(host_header, colon)))

\* lines 1001-1009: the bracketed host up to ']' at index bracket_end
bracketed_host_and_port(host_header, bracket_end) ==
    [hostname |-> SubSeq(host_header, 1, bracket_end),
     port |-> IF starts_with(slice_from(host_header, bracket_end), <<":">>)
              THEN parse_u16(slice_from(host_header, bracket_end + 1))
              ELSE None]

\* parse_host_and_port
parse_host_and_port(host_header) ==
    IF starts_with(host_header, <<"[">>) /\ contains_char(host_header, "]")
    THEN bracketed_host_and_port(host_header, find_char(host_header, "]"))
    ELSE host_and_port(host_header, rfind_char(host_header, ":"))

LOCALHOST == <<"l", "o", "c", "a", "l", "h", "o", "s", "t">>
HTTP == <<"h", "t", "t", "p">>
HTTPS == <<"h", "t", "t", "p", "s">>

\* lines 292-296
matched_path_str(matched_path) ==
    IF matched_path # None /\ matched_path[1].kind \in {"PathPrefix", "Exact"}
    THEN Some(matched_path[1].value)
    ELSE None

\* lines 299-307: hp the parsed Host header, scheme of X-Forwarded-Proto
redirect_config_of(redirect_filter, hp, scheme, pq, matched_path) ==
    [filter |-> redirect_filter, original_scheme |-> scheme,
     original_hostname |-> hp.hostname,
     original_port |-> IF hp.port # None THEN hp.port[1]
                       ELSE IF scheme = HTTPS THEN 443 ELSE 80,
     original_path |-> pq[1],
     original_query |-> IF pq[2] = None THEN <<>> ELSE pq[2][1],
     matched_path |-> matched_path_str(matched_path)]

\* lines 261-307
redirect_config(redirect_filter, headers, pq, matched_path) ==
    redirect_config_of(redirect_filter,
                       parse_host_and_port(or_else(header(headers, "Host"),
                                                   Some(LOCALHOST))[1]),
                       or_else(header(headers, "X-Forwarded-Proto"), Some(HTTP))[1],
                       pq, matched_path)

\* the result of resolve: the backend handle returned, if any, the request as
\* resolve leaves it and the keys passed to stats.record_request
resolved(backend, bereq, recorded) ==
    [backend |-> backend, bereq |-> [bereq EXCEPT !.ok = TRUE], recorded |-> recorded]

\* lines 320-328: stored the request after set_header("X-Ghost-Redirect-Config")
resolve_redirect(director, stored) ==
    IF ~stored.ok THEN resolved(None, stored, <<>>)
    ELSE resolved(director.redirect_backend, stored, <<>>)

\* a request header modifier, when present; its error is dropped (line 334)
with_request_header_filter(bereq, filters) ==
    IF filters.request_header_modifier # None
    THEN [apply_request_header_filter(bereq, filters.request_header_modifier[1])
             EXCEPT !.ok = TRUE]
    ELSE bereq

\* a URL rewrite, when present; its error is logged (lines 338-345)
with_url_rewrite_filter(bereq, filters, matched_path) ==
    IF filters.url_rewrite # None
    THEN [apply_url_rewrite_filter(bereq, filters.url_rewrite[1], matched_path)
             EXCEPT !.ok = TRUE]
    ELSE bereq

\* lines 331-350: the filters of a route that does not redirect
apply_filters(bereq, filters, matched_path) ==
    IF filters = None THEN bereq
    ELSE [store_filter_context(
              with_url_rewrite_filter(with_request_header_filter(bereq, filters[1]),
                                      filters[1], matched_path),
              filters[1])
             EXCEPT !.ok = TRUE]

\* lines 354-368: backend_ref the result of select_backend_weighted
resolve_select(director, bereq, backend_ref) ==
    IF backend_ref = None THEN resolved(director.internal_error_backend, bereq, <<>>)
    ELSE resolved(BackendPool_get(director.backend_pool, backend_ref[1].key), bereq,
                  <<backend_ref[1].key>>)

\* the draw r is one resolve can make for the matched route: gen_range is
\* called only when the route does not redirect
route_possible_draw(match_result, r) ==
    IF match_result = None THEN r = 0
    ELSE IF match_result[1].filters # None
            /\ match_result[1].filters[1].request_redirect # None THEN r = 0
    ELSE possible_draw(match_result[1].backends, r)

\* resolve with the redirect test after the other filters
resolve_route_redirect_after_filters(director, bereq, match_result, pq, r) ==
    IF match_result.filters # None /\ match_result.filters[1].request_redirect # None
    THEN resolve_redirect(director,
                          set_header(apply_filters(bereq, match_result.filters,
                                                   match_result.matched_path),
                                     "X-Ghost-Redirect-Config",
                                     [json |-> redirect_config(
                                                   match_result.filters[1].request_redirect[1],
                                                   bereq.headers, pq,
                                                   match_result.matched_path)]))
    ELSE resolve_select(director,
                        apply_filters(bereq, match_result.filters, match_result.matched_path),
                        select_backend_weighted(match_result.backends, r))

\* lines 255-368 for the matched route
resolve_route(director, bereq, match_result, pq, r) ==
    IF match_result.filters # None /\ match_result.filters[1].request_redirect # None
    THEN resolve_redirect(director,
                          set_header(bereq, "X-Ghost-Redirect-Config",
                                     [json |-> redirect_config(
                                                   match_result.filters[1].request_redirect[1],
                                                   bereq.headers, pq,
                                                   match_result.matched_path)]))
    ELSE resolve_select(director,
                        apply_filters(bereq, match_result.filters, match_result.matched_path),
                        select_backend_weighted(match_result.backends, r))

\* lines 244-250: no matching route ends resolve with no backend
resolve_match(director, bereq, match_result, pq, r) ==
    IF match_result = None THEN resolved(None, bereq, <<>>)
    ELSE resolve_route(director, bereq, match_result[1], pq, r)

\* the request headers as HeaderMatchCompiled::matches reads them
request_header_map(headers) ==
    [n \in {<<lower_name(headers[i].name)>> : i \in 1..Len(headers)} |->
        header(headers, n[1])[1]]

vhost_resolve_with(director, bereq, pq, r) ==
    resolve_match(director, bereq,
                  vhost_match_routes(director.routes, pq[1], bereq.method,
                                     request_header_map(bereq.headers), pq[2]),
                  pq, r)

\* VhostDirector::resolve for the draw r of the weighted selection
vhost_resolve(director, bereq, r) ==
    vhost_resolve_with(director, bereq, extract_path_and_query(bereq.url), r)

---------------------------------------------------------------------------
(* apply_request_header_filter on requests of up to two header lines and  *)
(* filters of up to MaxActions set and add actions                        *)

MaxActions == 2

HeaderNames == {"a", "A", "b"}

PriorHeaders ==
    {<<>>, <<[name |-> "a", value |-> <<"p">>]>>, <<[name |-> "b", value |-> <<"p">>]>>,
     <<[name |-> "a", value |-> <<"p">>], [name |-> "a", value |-> <<"q">>]>>,
     <<[name |-> "A", value |-> <<>>], [name |-> "b", value |-> <<"q">>]>>}

SetActions ==
    {[name |-> "a", value |-> <<"s">>], [name |-> "A", value |-> <<"t">>],
     [name |-> "b", value |-> <<"s">>]}

AddActions ==
    {[name |-> "a", value |-> <<"x">>], [name |-> "A", value |-> <<"y">>],
     [name |-> "b", value |-> <<"x">>]}

HeaderFilters ==
    [remove : {<<>>, <<"a">>, <<"b">>}, set : SeqsUpTo(SetActions, MaxActions),
     add : SeqsUpTo(AddActions, MaxActions)]

HeaderInit ==
    /\ DirIdle
    /\ args \in [bereq : [ok : {TRUE}, headers : PriorHeaders, url : {Root},
                          room : 0..(2 * MaxActions)],
                 filter : HeaderFilters]
    /\ ret = None

CallApplyRequestHeaderFilter ==
    /\ ret = None
    /\ ret' = <<apply_request_header_filter(args.bereq, args.filter)>>
    /\ UNCHANGED <<dirVars, statVars, body, libVars, args>>

SpecHeader == HeaderInit /\ [][CallApplyRequestHeaderFilter]_vars

\* the lines of a header list, or the actions of an action list, named n
named(lines, n) == SelectSeq(lines, LAMBDA l : same_name(l.name, n))

listed(names, n) == \E i \in 1..Len(names) : same_name(names[i], n)

\* first, then each value of the actions in order, separated by commas
RECURSIVE comma_joined(_, _)
comma_joined(first, actions) ==
    IF actions = <<>> THEN first
    ELSE comma_joined(first \o <<",">> \o Head(actions).value, Tail(actions))

one_line_holding(lines, value) == Len(lines) = 1 /\ lines[1].value = value

\* what the claim says of the lines named n after the filter: sets and adds are
\* the actions of the filter named n, prior the lines named n before the call
header_outcome(lines, sets, adds, prior, removed) ==
    /\ sets # <<>> => one_line_holding(lines, comma_joined(sets[Len(sets)].value, adds))
    /\ sets = <<>> /\ adds # <<>> /\ ~removed =>
           one_line_holding(lines, IF prior = <<>> THEN comma_joined(adds[1].value, Tail(adds))
                                   ELSE comma_joined(prior[1].value, adds))
    /\ sets = <<>> /\ adds = <<>> /\ removed => lines = <<>>
    /\ adds # <<>> => Len(lines) = 1

header_outcomes(before, filter, after) ==
    \A n \in HeaderNames :
        header_outcome(named(after.headers, n), named(filter.set, n), named(filter.add, n),
                       named(before.headers, n), listed(filter.remove, n))

\* C18: after a call of apply_request_header_filter that returns Ok (the removes,
\* then the sets, then the adds were all performed) a name listed in set has one
\* line holding the set value, then ',' and each add value for the name in order;
\* a name listed only in add has one line holding its prior value, if any, then the
\* add values; a name listed only in remove is absent; no add leaves a second line
HeaderFilterCompleteWhenOk ==
    ret # None /\ ret[1].ok => header_outcomes(args.bereq, args.filter, ret[1])

HeaderSetThenAddsJoined ==
    /\ ret # None
    /\ ret[1].ok
    /\ args.bereq.headers = <<[name |-> "a", value |-> <<"p">>], [name |-> "a", value |-> <<"q">>]>>
    /\ args.filter.set = <<[name |-> "A", value |-> <<"t">>]>>
    /\ args.filter.add = <<[name |-> "a", value |-> <<"x">>], [name |-> "A", value |-> <<"y">>]>>
    /\ ret[1].headers = <<[name |-> "A", value |-> <<"t", ",", "x", ",", "y">>]>>

---------------------------------------------------------------------------
(* apply_url_rewrite_filter on the request of a matched route: paths of   *)
(* up to MaxUrlPathLen characters with and without query and fragment     *)

MaxUrlPathLen == 3

RewritePaths == {path \in SeqsUpTo(PathChars, MaxUrlPathLen) : starts_with(path, <<"/">>)}

UrlTails == {<<>>, <<"?">>, <<"?", "q">>, <<"?", "q", "#", "f">>, <<"#", "f">>}

RewriteUrls == {path \o tail : path \in RewritePaths, tail \in UrlTails} \cup {<<"?", "q">>}

\* the path_match of the matched route
MatchedPaths(path) ==
    {None, Some([kind |-> "Exact", value |-> path]),
     Some([kind |-> "Regex", accepts |-> {path}])} \cup
    {Some([kind |-> "PathPrefix", value |-> prefix]) :
        prefix \in {v \in {<<"/">>, <<"/", "a">>, <<"/", "a", "/">>} :
                        matches_path_prefix(v, path)}}

NewPrefixes == {<<>>, <<"/">>, <<"/", "b">>, <<"/", "b", "/">>, <<"/", "b", "/", "/">>}

NoRewrite ==
    [hostname |-> None, path_type |-> None, replace_full_path |-> None,
     replace_prefix_match |-> None]

URLRewriteFilters ==
    {[NoRewrite EXCEPT !.hostname = hostname, !.path_type = Some("ReplacePrefixMatch"),
                       !.replace_prefix_match = Some(n)] :
        hostname \in {None, Some(<<"h">>)}, n \in NewPrefixes} \cup
    {[NoRewrite EXCEPT !.hostname = Some(<<"h">>)],
     [NoRewrite EXCEPT !.path_type = Some("ReplacePrefixMatch")],
     [NoRewrite EXCEPT !.path_type = Some("ReplaceFullPath")],
     [NoRewrite EXCEPT !.path_type = Some("ReplaceFullPath"),
                       !.replace_full_path = Some(<<"/", "b">>)],
     [NoRewrite EXCEPT !.path_type = Some("ReplaceHost")]}

RewriteInit ==
    /\ DirIdle
    /\ args \in [bereq : [ok : {TRUE}, headers : {<<[name |-> "Host", value |-> <<"g">>]>>},
                          url : RewriteUrls, room : 0..2],
                 filter : URLRewriteFilters,
                 matched_path : UNION {MatchedPaths(path) : path \in RewritePaths}]
    /\ args.matched_path \in MatchedPaths(extract_path_and_query(args.bereq.url)[1])
    /\ ret = None

CallApplyUrlRewriteFilter ==
    /\ ret = None
    /\ ret' = <<apply_url_rewrite_filter(args.bereq, args.filter, args.matched_path)>>
    /\ UNCHANGED <<dirVars, statVars, body, libVars, args>>

SpecRewrite == RewriteInit /\ [][CallApplyUrlRewriteFilter]_vars

\* n without its trailing '/' characters
trimmed(n) ==
    SubSeq(n, 1, least_or_zero({i \in 0..Len(n) :
                                  /\ i = 0 \/ n[i] # "/"
                                  /\ \A j \in (i + 1)..Len(n) : n[j] = "/"}))

\* t joined to the rest R of the path with one '/' between them, t alone when R
\* is empty, "/" when that is empty
joined_once(t, R) ==
    IF R = <<>> THEN (IF t = <<>> THEN <<"/">> ELSE t)
    ELSE IF R[1] = "/" THEN t \o R
    ELSE t \o <<"/">> \o R

\* the part of the URL from its '?' up to a fragment, empty without a query
query_part(url) ==
    IF find_char(url, "?") = 0 THEN <<>>
    ELSE strip_fragment(SubSeq(url, find_char(url, "?"), Len(url)))

prefix_rewritten(url, path, n, matched_path, new_url) ==
    /\ matched_path # None /\ matched_path[1].kind = "PathPrefix" =>
           new_url = joined_once(trimmed(n),
                                 SubSeq(path, Len(matched_path[1].value) + 1, Len(path)))
                         \o query_part(url)
    /\ matched_path # None /\ matched_path[1].kind = "Exact" =>
           new_url = n \o query_part(url)
    /\ query_part(new_url) = query_part(url)

\* C19: after a URL rewrite with ReplacePrefixMatch and replacement n that returns
\* Ok, for a route matched by PathPrefix(p) and a request path p + R the path is
\* n without trailing '/' joined to R with one '/' between them, that n alone
\* when R is empty and "/" when that is empty; for a route matched by Exact the
\* path is n; in every case the query string of the URL is the one of the request
ReplacePrefixMatchRewrites ==
    /\ ret # None
    /\ ret[1].ok
    /\ args.filter.path_type = Some("ReplacePrefixMatch")
    /\ args.filter.replace_prefix_match # None
    => prefix_rewritten(args.bereq.url, extract_path_and_query(args.bereq.url)[1],
                        args.filter.replace_prefix_match[1], args.matched_path,
                        ret[1].url)

RewroteRootPrefixKeepingQuery ==
    /\ ret # None
    /\ ret[1].ok
    /\ args.bereq.url = <<"/", "a", "b", "?", "q", "#", "f">>
    /\ args.matched_path = Some([kind |-> "PathPrefix", value |-> <<"/">>])
    /\ args.filter.replace_prefix_match = Some(<<"/", "b", "/", "/">>)
    /\ ret[1].url = <<"/", "b", "/", "a", "b", "?", "q">>

---------------------------------------------------------------------------
(* VhostDirector::resolve on directors of up to MaxVhostRoutes routes.    *)
(* resolve runs in a backend fetch, where the request (bereq) exists      *)

MaxVhostRoutes == 2

RedirectHandle == [key |-> "redirect", by |-> 0]
InternalErrorHandle == [key |-> "internal_error", by |-> 0]

K1 == backend_key(B1.address, B1.port)
K2 == backend_key(B2.address, B2.port)

VhostPool == [k \in {K1, K2} |-> [key |-> k, by |-> 0]]

RedirectFilter ==
    [scheme |-> Some(HTTPS), hostname |-> None, port |-> None, status_code |-> 301,
     replace_full_path |-> None, replace_prefix_match |-> None]

HeaderModifier ==
    [remove |-> <<"Host">>, set |-> <<[name |-> "a", value |-> <<"s">>]>>, add |-> <<>>]

PrefixRewrite ==
    [NoRewrite EXCEPT !.path_type = Some("ReplacePrefixMatch"),
                      !.replace_prefix_match = Some(P_b)]

NoFilters ==
    [request_redirect |-> None, request_header_modifier |-> None, url_rewrite |-> None,
     response_header_modifier |-> None]

OtherFilters ==
    [NoFilters EXCEPT !.request_header_modifier = Some(HeaderModifier),
                      !.url_rewrite = Some(PrefixRewrite),
                      !.response_header_modifier = Some(HeaderModifier)]

VhostRouteShapes ==
    {[PlainEntry EXCEPT !.path_match = Some([kind |-> "PathPrefix", value |-> P_a]),
                        !.backends = bs, !.filters = fs] :
        bs \in {<<>>, <<[key |-> K1, weight |-> 1], [key |-> K2, weight |-> 1]>>},
        fs \in {None, Some(OtherFilters),
                Some([NoFilters EXCEPT !.request_redirect = Some(RedirectFilter)]),
                Some([OtherFilters EXCEPT !.request_redirect = Some(RedirectFilter)])}}
    \cup {[PlainEntry EXCEPT !.path_match = Some([kind |-> "Exact", value |-> P_b]),
                             !.backends = <<[key |-> K2, weight |-> 2]>>]}

VhostDirectors ==
    [routes : SeqsUpTo(VhostRouteShapes, MaxVhostRoutes), backend_pool : {VhostPool},
     redirect_backend : {Some(RedirectHandle)},
     internal_error_backend : {Some(InternalErrorHandle)}]
    \cup
    [routes : SeqsUpTo(VhostRouteShapes, 1), backend_pool : {VhostPool},
     redirect_backend : {None}, internal_error_backend : {None}]

VhostRequests ==
    [ok : {TRUE}, method : {"GET"},
     url : {P_a, P_b, <<"/", "a", "/", "c", "?", "q">>, <<"/", "c">>},
     headers : {<<>>, <<[name |-> "Host", value |-> <<"a", ".", "x", ":", "8">>],
                        [name |-> "a", value |-> <<"p">>]>>},
     room : 0..2]

VhostInit ==
    /\ DirIdle
    /\ args \in [director : VhostDirectors, bereq : VhostRequests, r : 0..1]
    /\ route_possible_draw(
           vhost_match_routes(args.director.routes,
                              extract_path_and_query(args.bereq.url)[1], args.bereq.method,
                              request_header_map(args.bereq.headers),
                              extract_path_and_query(args.bereq.url)[2]),
           args.r)
    /\ ret = None

CallVhostResolve ==
    /\ ret = None
    /\ ret' = <<vhost_resolve(args.director, args.bereq, args.r)>>
    /\ UNCHANGED <<dirVars, statVars, body, libVars, args>>

SpecVhost == VhostInit /\ [][CallVhostResolve]_vars

\* the route of the director that matches the request, if any
MatchedRoute ==
    vhost_match_routes(args.director.routes, extract_path_and_query(args.bereq.url)[1],
                       args.bereq.method, request_header_map(args.bereq.headers),
                       extract_path_and_query(args.bereq.url)[2])

\* C13: when no route of the vhost matches the request, resolve yields the
\* NotFound synthetic backend, not 'no backend'
NoMatchingRouteIsNotFound ==
    ret # None /\ MatchedRoute = None =>
        ret[1].backend # None /\ ret[1].backend[1].key = "not_found"

RedirectRouteMatched ==
    /\ MatchedRoute # None
    /\ MatchedRoute[1].filters # None
    /\ MatchedRoute[1].filters[1].request_redirect # None

\* the header lines other than the two internal ones
plain_lines(headers) ==
    SelectSeq(headers,
              LAMBDA l : l.name \notin {"X-Ghost-Redirect-Config", "X-Ghost-Filter-Context"})

redirect_config_stored(headers, redirect_filter) ==
    /\ headers # <<>>
    /\ headers[Len(headers)].name = "X-Ghost-Redirect-Config"
    /\ headers[Len(headers)].value.json.filter = redirect_filter

---------------------------------------------------------------------------
(* GhostDirector::resolve: what a finished call returned *)

\* C14: every call of resolve, also for a request with no Host header, returns a
\* backend handle: an upstream endpoint or a synthetic backend
ResolveAlwaysReturnsBackend ==
    \A w \in Workers : rs[w].pc = "done" => rs[w].result \in {"backend", "not_found"}

---------------------------------------------------------------------------
(* redirect_backend.rs: build_location *)

DigitChar(d) ==
    CASE d = 0 -> "0" [] d = 1 -> "1" [] d = 2 -> "2" [] d = 3 -> "3" [] d = 4 -> "4"
      [] d = 5 -> "5" [] d = 6 -> "6" [] d = 7 -> "7" [] d = 8 -> "8" [] d = 9 -> "9"

\* format!("{}", port) of a u16
RECURSIVE to_decimal(_)
to_decimal(n) ==
    IF n < 10 THEN <<DigitChar(n)>> ELSE Append(to_decimal(n \div 10), DigitChar(n % 10))

\* the port choice that ignores a change of scheme
redirect_port_keeps_original(filter, original_scheme, original_port, scheme) ==
    IF filter.port # None THEN filter.port[1] ELSE original_port

\* lines 101-109
redirect_port(filter, original_scheme, original_port, scheme) ==
    IF filter.port # None THEN filter.port[1]
    ELSE IF filter.scheme # None /\ filter.scheme # Some(original_scheme)
    THEN (IF scheme = HTTPS THEN 443 ELSE 80)
    ELSE original_port

should_omit_port(scheme, port) ==
    (scheme = HTTP /\ port = 80) \/ (scheme = HTTPS /\ port = 443)

\* lines 158-164 of rewrite_path
redirect_replaced_prefix(remainder, trimmed_new) ==
    IF remainder = <<>> THEN trimmed_new
    ELSE IF starts_with(remainder, <<"/">>) THEN trimmed_new \o remainder
    ELSE trimmed_new \o <<"/">> \o remainder

\* replace_first_segment_heuristic of redirect_backend.rs (lines 177-194):
\* segments is path.splitn(3, '/'), which has two parts or more for a path
\* that starts with '/'
redirect_replace_first_segment_heuristic(path, new_prefix) ==
    IF ~starts_with(path, <<"/">>) THEN new_prefix
    ELSE IF find_char(slice_from(path, 1), "/") = 0
            \/ slice_from(slice_from(path, 1), find_char(slice_from(path, 1), "/")) = <<>>
    THEN trim_end_matches(new_prefix)
    ELSE trim_end_matches(new_prefix) \o <<"/">>
         \o slice_from(slice_from(path, 1), find_char(slice_from(path, 1), "/"))

\* rewrite_path of redirect_backend.rs
redirect_rewrite_path(filter, original_path, matched_path) ==
    IF filter.replace_full_path # None THEN filter.replace_full_path[1]
    ELSE IF filter.replace_prefix_match = None THEN original_path
    ELSE IF matched_path # None /\ starts_with(original_path, matched_path[1])
    THEN redirect_replaced_prefix(slice_from(original_path, Len(matched_path[1])),
                                  trim_end_matches(filter.replace_prefix_match[1]))
    ELSE redirect_replace_first_segment_heuristic(original_path,
                                                  filter.replace_prefix_match[1])

\* lines 119-135
location_of(scheme, hostname, port, path, original_query) ==
    scheme \o <<":", "/", "/">> \o hostname
        \o (IF should_omit_port(scheme, port) THEN <<>> ELSE <<":">> \o to_decimal(port))
        \o path
        \o (IF original_query # <<>> THEN <<"?">> \o original_query ELSE <<>>)

location_with_scheme(config, scheme) ==
    location_of(scheme, or_else(config.filter.hostname, Some(config.original_hostname))[1],
                redirect_port(config.filter, config.original_scheme, config.original_port,
                              scheme),
                redirect_rewrite_path(config.filter, config.original_path,
                                      config.matched_path),
                config.original_query)

\* build_location
build_location(config) ==
    location_with_scheme(config, or_else(config.filter.scheme, Some(config.original_scheme))[1])

WS == <<"w", "s">>

RedirectFilters ==
    [scheme : {None, Some(HTTP), Some(HTTPS), Some(WS)},
     hostname : {None, Some(<<"b">>)},
     port : {None, Some(80), Some(443), Some(8)},
     status_code : {301},
     replace_full_path : {None, Some(P_b)},
     replace_prefix_match : {None, Some(<<"/", "b", "/">>)}]

RedirectConfigs ==
    [filter : RedirectFilters, original_scheme : {HTTP, HTTPS},
     original_hostname : {<<"a">>}, original_port : {80, 443, 8080},
     original_path : {P_a, <<"/", "a", "/", "c">>}, original_query : {<<>>, <<"q">>},
     matched_path : {None, Some(P_a)}]

LocationInit ==
    /\ DirIdle
    /\ args \in RedirectConfigs
    /\ ret = None

CallBuildLocation ==
    /\ ret = None
    /\ ret' = <<build_location(args)>>
    /\ UNCHANGED <<dirVars, statVars, body, libVars, args>>

SpecLocation == LocationInit /\ [][CallBuildLocation]_vars

\* the scheme, hostname and port the claim names
claimed_scheme == IF args.filter.scheme # None THEN args.filter.scheme[1] ELSE args.original_scheme

claimed_hostname ==
    IF args.filter.hostname # None THEN args.filter.hostname[1] ELSE args.original_hostname

claimed_port ==
    IF args.filter.port # None THEN args.filter.port[1]
    ELSE IF args.filter.scheme # None /\ args.filter.scheme[1] # args.original_scheme
    THEN (IF args.filter.scheme[1] = HTTPS THEN 443 ELSE 80)
    ELSE args.original_port

claimed_port_part ==
    IF <<claimed_scheme, claimed_port>> \in {<<HTTP, 80>>, <<HTTPS, 443>>} THEN <<>>
    ELSE <<":">> \o to_decimal(claimed_port)

claimed_query_part ==
    IF args.original_query # <<>> THEN <<"?">> \o args.original_query ELSE <<>>

\* C20: build_location yields scheme://hostname[:port]path[?query]: scheme and
\* hostname of the filter when set, else of the request; the filter's port when
\* set, else the default port of the new scheme when the filter sets a scheme
\* other than the original, else the original port; ':port' is left out exactly
\* for (http, 80) and (https, 443); '?query' is there exactly for a non-empty query
LocationFollowsFilterThenOriginal ==
    ret # None =>
        ret[1] = claimed_scheme \o <<":", "/", "/">> \o claimed_hostname
                     \o claimed_port_part
                     \o redirect_rewrite_path(args.filter, args.original_path,
                                              args.matched_path)
                     \o claimed_query_part

LocationOmitsDefaultPortOfNewScheme ==
    /\ ret # None
    /\ args.filter = [scheme |-> Some(HTTPS), hostname |-> None, port |-> None,
                      status_code |-> 301, replace_full_path |-> None,
                      replace_prefix_match |-> None]
    /\ args.original_scheme = HTTP
    /\ args.original_port = 80
    /\ args.original_path = P_a
    /\ args.original_query = <<"q">>
    /\ ret[1] = <<"h", "t", "t", "p", "s", ":", "/", "/", "a", "/", "a", "?", "q">>

---------------------------------------------------------------------------
(* redirect_backend.rs: RedirectBackend::get_response.  A header value is *)
(* a record: [json |-> c] is the serialized RedirectConfig c, any other   *)
(* record a payload serde_json::from_str rejects                          *)

\* serde_json::from_str::<RedirectConfig>
from_json(value) == IF DOMAIN value = {"json"} THEN Some(value.json) ELSE None

\* the outcome of get_response: ok is FALSE for Err
responded(ok, bereq, beresp) == [ok |-> ok, bereq |-> bereq, beresp |-> beresp]

\* lines 68-82: sent the response after set_status and set_header("Location")
respond_sent(bereq, sent) ==
    IF ~sent.ok THEN responded(FALSE, bereq, Some(sent))
    ELSE responded(TRUE,
                   [bereq EXCEPT !.headers = unset_header(@, "X-Ghost-Redirect-Config")],
                   Some(sent))

\* lines 49-82: config the parsed RedirectConfig
respond_redirect(bereq, beresp, config) ==
    IF beresp = None THEN responded(FALSE, bereq, beresp)
    ELSE respond_sent(bereq,
                      set_header([beresp[1] EXCEPT !.status = config.filter.status_code],
                                 "Location", build_location(config)))

\* lines 41-47: config_json the value of the header
respond_parsed(bereq, beresp, config) ==
    IF config = None THEN responded(FALSE, bereq, beresp)
    ELSE respond_redirect(bereq, beresp, config[1])

\* lines 32-47: config_json the result of bereq.header("X-Ghost-Redirect-Config")
respond_config_json(bereq, beresp, config_json) ==
    IF config_json = None THEN responded(FALSE, bereq, beresp)
    ELSE respond_parsed(bereq, beresp, from_json(config_json[1]))

\* RedirectBackend::get_response
RedirectBackend_get_response(bereq, beresp) ==
    respond_config_json(bereq, beresp, header(bereq.headers, "X-Ghost-Redirect-Config"))

\* the configurations resolve stores for the redirect filter of a route
StoredRedirectConfigs ==
    {c \in RedirectConfigs :
        /\ c.filter.hostname = None
        /\ c.filter.port \in {None, Some(8)}
        /\ c.filter.replace_full_path = None
        /\ c.original_path = P_a
        /\ c.original_port = 80}

\* the lines of the name a client may have sent with the request
ClientRedirectLines ==
    {<<>>, <<[name |-> "x-ghost-redirect-config", value |-> [text |-> <<"{">>]]>>}

RedirectInit ==
    /\ DirIdle
    /\ args \in [bereq : {[ok |-> TRUE, url |-> P_a, method |-> "GET", room |-> 1,
                            headers |-> client \o
                                <<[name |-> "X-Ghost-Redirect-Config",
                                   value |-> [json |-> c]]>>] :
                               client \in ClientRedirectLines, c \in StoredRedirectConfigs},
                 beresp : {None} \cup {Some([ok |-> TRUE, status |-> 200, headers |-> <<>>,
                                              room |-> room]) : room \in 0..1}]
    /\ ret = None

CallGetResponse ==
    /\ ret = None
    /\ ret' = <<RedirectBackend_get_response(args.bereq, args.beresp)>>
    /\ UNCHANGED <<dirVars, statVars, body, libVars, args>>

SpecRedirect == RedirectInit /\ [][CallGetResponse]_vars

\* C21: when get_response of the Redirect backend returns, on success or with an
\* error, the request holds no X-Ghost-Redirect-Config line
RedirectConfigHeaderRemoved ==
    ret # None => header(ret[1].bereq.headers, "X-Ghost-Redirect-Config") = None

---------------------------------------------------------------------------
(* config.rs: the files load and load_v2 accept *)

\* a weight is a u32: it is written here as the 32-bit pattern read in two's
\* complement, so 2^31 is -2147483647 - 1 and 2^32 - 1 is -1; a negative
\* number stands for a weight of 2^31 or more
LoadWeights == {0, 1, 100, 2147483647, -2147483647 - 1, -1}

LoadBackends ==
    [address : {"", "10.0.0.1"}, port : {0, 80, U16Max}, weight : LoadWeights]

LoadHostnames ==
    {<<>>, <<"a">>, <<"*", ".">>, <<"*", ".", "x">>, <<"*", ".", "*">>,
     <<"x", "*">>, <<"*", "x">>, <<"*", ".", "*", ".", "x">>}

LoadVersions == 0..3

\* the file of version 2 with one vhost and the backend b at the place at
FileV2(version, hostname, b, at) ==
    [kind |-> "json",
     config |-> [version |-> version,
                 vhosts |-> <<[hostname |-> hostname,
                               routes |-> IF at = "route" THEN <<CatchAll(<<b>>, 1)>>
                                          ELSE <<>>,
                               default_backends |-> IF at = "default_backends"
                                                    THEN <<b>> ELSE <<>>]>>,
                 default |-> IF at = "default" THEN Some(<<b>>) ELSE None]]

\* the file of version 1 with one vhost and the backend b at the place at
FileV1(version, hostname, b, at) ==
    [kind |-> "json",
     config |-> [version |-> version,
                 vhosts |-> <<[hostname |-> hostname,
                               backends |-> IF at = "vhost" THEN <<b>> ELSE <<>>]>>,
                 default |-> IF at = "default" THEN Some(<<b>>) ELSE None]]

NoConfigFiles == {[kind |-> k, config |-> <<>>] : k \in {"missing", "unreadable", "garbage"}}

LoadInit ==
    /\ DirIdle
    /\ args \in ([loader : {"load_v2"},
                   file : {FileV2(v, h, b, at) : v \in LoadVersions, h \in LoadHostnames,
                                                  b \in LoadBackends,
                                                  at \in {"route", "default_backends",
                                                           "default"}}
                          \cup NoConfigFiles]
                  \cup
                  [loader : {"load"},
                   file : {FileV1(v, h, b, at) : v \in LoadVersions, h \in LoadHostnames,
                                                  b \in LoadBackends,
                                                  at \in {"vhost", "default"}}
                          \cup NoConfigFiles])
    /\ ret = None

CallLoad ==
    /\ ret = None
    /\ args.loader = "load"
    /\ ret' = <<load(args.file)>>
    /\ UNCHANGED <<dirVars, statVars, body, libVars, args>>

CallLoadV2 ==
    /\ ret = None
    /\ args.loader = "load_v2"
    /\ ret' = <<load_v2(args.file)>>
    /\ UNCHANGED <<dirVars, statVars, body, libVars, args>>

SpecLoad == LoadInit /\ [][CallLoad \/ CallLoadV2]_vars

\* every backend of the configuration of a file, wherever it stands
backends_of_file(config) ==
    UNION {{config.vhosts[i].backends[j] : j \in 1..Len(config.vhosts[i].backends)} :
              i \in {k \in 1..Len(config.vhosts) : "backends" \in DOMAIN config.vhosts[k]}}
    \cup UNION {UNION {{config.vhosts[i].routes[r].backends[j] :
                           j \in 1..Len(config.vhosts[i].routes[r].backends)} :
                       r \in 1..Len(config.vhosts[i].routes)} :
                   i \in {k \in 1..Len(config.vhosts) : "routes" \in DOMAIN config.vhosts[k]}}
    \cup UNION {{config.vhosts[i].default_backends[j] :
                    j \in 1..Len(config.vhosts[i].default_backends)} :
                   i \in {k \in 1..Len(config.vhosts) :
                             "default_backends" \in DOMAIN config.vhosts[k]}}
    \cup (IF config.default = None THEN {}
          ELSE {config.default[1][j] : j \in 1..Len(config.default[1])})

\* C22: a file is accepted only if every backend in it has a non-empty
\* address, a port from 1 to 65535 and a weight from 1 to 2^31 - 1; otherwise
\* load returns an error and no configuration
LoadAcceptsOnlyBoundedBackends ==
    (ret # None /\ args.file.kind = "json" /\ ret[1].ok) =>
        \A b \in backends_of_file(args.file.config) :
            /\ b.address # ""
            /\ b.port \in 1..U16Max
            /\ b.weight >= 1

\* C23: a file is accepted only if every vhost name in it is non-empty and,
\* when it contains '*', has exactly one '*', as its leading "*.", followed by
\* at least one non-empty label
LoadAcceptsOnlyWellFormedWildcards ==
    (ret # None /\ args.file.kind = "json" /\ ret[1].ok) =>
        \A i \in 1..Len(args.file.config.vhosts) :
            /\ args.file.config.vhosts[i].hostname # <<>>
            /\ contains_char(args.file.config.vhosts[i].hostname, "*") =>
                   /\ starts_with(args.file.config.vhosts[i].hostname, <<"*", ".">>)
                   /\ ~contains_char(Tail(args.file.config.vhosts[i].hostname), "*")
                   /\ \E j \in 3..Len(args.file.config.vhosts[i].hostname) :
                          args.file.config.vhosts[i].hostname[j] # "."

\* C24: a file is accepted only if its version is 2, and a file of version 2
\* whose vhost names and backends are valid is accepted
LoadAcceptsOnlyVersionTwo ==
    (ret # None /\ args.file.kind = "json") =>
        /\ ret[1].ok => args.file.config.version = 2
        /\ (/\ args.file.config.version = 2
            /\ \A i \in 1..Len(args.file.config.vhosts) :
                   validate_hostname(args.file.config.vhosts[i].hostname)
            /\ \A b \in backends_of_file(args.file.config) :
                   b.address # "" /\ b.port # 0 /\ b.weight # 0)
           => ret[1].ok

---------------------------------------------------------------------------
(* stats.rs: VhostStats::record_request called by concurrent resolves      *)
(* (vhost_director.rs 353-369)                                             *)

MaxCalls == 2

\* the backend_refs of the matched route: none, or three of which the last
\* is not in the pool
GONE == "10.0.0.9:80"

StatRefLists ==
    {<<>>,
     <<[key |-> K1, weight |-> 1], [key |-> K2, weight |-> 1], [key |-> GONE, weight |-> 1]>>}

\* insert(key, 1) in place of the increment
entry_add_as_insert(selections, key) ==
    [k \in DOMAIN selections \cup {key} |-> IF k = key THEN 1 ELSE selections[k]]

\* line 42: *selections.entry(key).or_insert(0) += 1
entry_add(selections, key) ==
    [k \in DOMAIN selections \cup {key} |->
        IF k = key THEN (IF key \in DOMAIN selections THEN selections[key] ELSE 0) + 1
        ELSE selections[k]]

\* vhost_director.rs 354-360: backend_ref the result of select_backend_weighted
select_returned(locals, backend_ref) ==
    IF backend_ref = None
    THEN [locals EXCEPT !.pc = "idle", !.calls = @ + 1, !.key = None, !.recorded = <<>>,
                        !.result = Some(InternalErrorHandle)]
    ELSE [locals EXCEPT !.pc = "fetch_add", !.key = Some(backend_ref[1].key),
                        !.recorded = <<>>, !.result = None]

\* vhost_director.rs 354: select_backend_weighted(backend_refs), r the draw
ResolveSelect(t, refs, r) ==
    /\ vs[t].pc = "idle"
    /\ vs[t].calls < MaxCalls
    /\ possible_draw(refs, r)
    /\ vs' = [vs EXCEPT ![t] = select_returned(vs[t], select_backend_weighted(refs, r))]
    /\ UNCHANGED <<dirVars, args, ret, stats, body, libVars>>

\* stats.rs 35: total_requests.fetch_add(1), the first step of record_request
RecordFetchAdd(t) ==
    /\ vs[t].pc = "fetch_add"
    /\ stats' = [stats EXCEPT !.total_requests = @ + 1]
    /\ vs' = [vs EXCEPT ![t].pc = "lock_last_request",
                        ![t].recorded = Append(@, vs[t].key[1])]
    /\ UNCHANGED <<dirVars, args, ret, body, libVars>>

\* stats.rs 38: last_request.write() waits until the lock is free
LockLastRequest(t) ==
    /\ vs[t].pc = "lock_last_request"
    /\ stats.last_request_lock = None
    /\ stats' = [stats EXCEPT !.last_request_lock = Some(t)]
    /\ vs' = [vs EXCEPT ![t].pc = "store_last_request"]
    /\ UNCHANGED <<dirVars, args, ret, body, libVars>>

\* stats.rs 38: the assignment, and the guard dropped at the end of the statement
StoreLastRequest(t) ==
    /\ vs[t].pc = "store_last_request"
    /\ stats' = [stats EXCEPT !.last_request = Some("now"), !.last_request_lock = None]
    /\ vs' = [vs EXCEPT ![t].pc = "lock_selections"]
    /\ UNCHANGED <<dirVars, args, ret, body, libVars>>

\* stats.rs 41: backend_selections.write() waits until the lock is free
LockSelections(t) ==
    /\ vs[t].pc = "lock_selections"
    /\ stats.backend_selections_lock = None
    /\ stats' = [stats EXCEPT !.backend_selections_lock = Some(t)]
    /\ vs' = [vs EXCEPT ![t].pc = "entry"]
    /\ UNCHANGED <<dirVars, args, ret, body, libVars>>

\* stats.rs 42
RecordEntry(t) ==
    /\ vs[t].pc = "entry"
    /\ stats' = [stats EXCEPT !.backend_selections = entry_add(@, vs[t].key[1])]
    /\ vs' = [vs EXCEPT ![t].pc = "unlock_selections"]
    /\ UNCHANGED <<dirVars, args, ret, body, libVars>>

\* stats.rs 43: the guard is dropped and record_request returns
RecordReturn(t) ==
    /\ vs[t].pc = "unlock_selections"
    /\ stats' = [stats EXCEPT !.backend_selections_lock = None]
    /\ vs' = [vs EXCEPT ![t].pc = "get", ![t].records = @ + 1]
    /\ UNCHANGED <<dirVars, args, ret, body, libVars>>

\* vhost_director.rs 366-368: self.backend_pool.get(&backend_ref.key)?
ResolveGet(t) ==
    /\ vs[t].pc = "get"
    /\ vs' = [vs EXCEPT ![t].pc = "idle", ![t].calls = @ + 1,
                        ![t].result = BackendPool_get(VhostPool, vs[t].key[1])]
    /\ UNCHANGED <<dirVars, args, ret, stats, body, libVars>>

StatsInit == DirIdle /\ PureIdle

StatsNext ==
    \E t \in Threads :
        \/ \E refs \in StatRefLists, r \in 0..2 : ResolveSelect(t, refs, r)
        \/ RecordFetchAdd(t)
        \/ LockLastRequest(t)
        \/ StoreLastRequest(t)
        \/ LockSelections(t)
        \/ RecordEntry(t)
        \/ RecordReturn(t)
        \/ ResolveGet(t)

SpecStats == StatsInit /\ [][StatsNext]_vars

RECURSIVE sum_of(_, _)
sum_of_from(f, S, x) == f[x] + sum_of(f, S \ {x})
\* the sum of f over the set S
sum_of(f, S) == IF S = {} THEN 0 ELSE sum_of_from(f, S, CHOOSE x \in S : TRUE)

\* the thread is between the first and the last step of record_request
in_record_request(t) ==
    vs[t].pc \in {"lock_last_request", "store_last_request", "lock_selections", "entry",
                  "unlock_selections"}

\* C25: a resolve that returned the endpoint k has called record_request
\* once, with k; whenever no record_request call is under way total_requests
\* is the number of record_request calls made and the sum of the selection
\* counts of all endpoints
StatsCountEveryRequestOnce ==
    /\ \A t \in Threads :
           (vs[t].pc = "idle" /\ vs[t].result # None
                /\ vs[t].result # Some(InternalErrorHandle))
               => vs[t].recorded = <<vs[t].result[1].key>>
    /\ (\A t \in Threads : ~in_record_request(t)) =>
           /\ stats.total_requests = sum_of([t \in Threads |-> vs[t].records], Threads)
           /\ stats.total_requests
                  = sum_of(stats.backend_selections, DOMAIN stats.backend_selections)

\* both threads have returned from two resolves each, three of which chose
\* the first endpoint
FourRequestsCounted ==
    /\ \A t \in Threads : vs[t].pc = "idle" /\ vs[t].calls = 2 /\ vs[t].records = 2
    /\ stats.total_requests = 4
    /\ stats.backend_selections = (K1 :> 3) @@ (K2 :> 1)

---------------------------------------------------------------------------
(* backend_pool.rs: retain_only and get_or_create on every small pool      *)

K3 == backend_key("::1", 80)

PoolKeys == {K1, K2, K3}

\* the pools of up to three backends, each created at construction or by the
\* first reload
Pools ==
    UNION {[ks -> {0, 1}] : ks \in SUBSET PoolKeys}

PoolOf(created) == [k \in DOMAIN created |-> [key |-> k, by |-> created[k]]]

PoolInit ==
    /\ DirIdle
    /\ args \in [op : {"retain_only"}, pool : {PoolOf(c) : c \in Pools},
                  keys_to_keep : SUBSET (PoolKeys \cup {GONE})]
              \cup
              [op : {"get_or_create"}, pool : {PoolOf(c) : c \in Pools},
               address : {"10.0.0.1", "10.0.0.2", "::1", "backend.local"},
               port : {80, 8080}, refused : {{}, PoolKeys \cup {"::1:8080"}}]
    /\ ret = None

CallRetainOnly ==
    /\ ret = None
    /\ args.op = "retain_only"
    /\ ret' = <<retain_only(args.pool, args.keys_to_keep)>>
    /\ UNCHANGED <<dirVars, statVars, body, libVars, args>>

\* the call made by the second reload
CallGetOrCreate ==
    /\ ret = None
    /\ args.op = "get_or_create"
    /\ ret' = <<get_or_create(args.pool, args.address, args.port, 2, args.refused)>>
    /\ UNCHANGED <<dirVars, statVars, body, libVars, args>>

SpecPool == PoolInit /\ [][CallRetainOnly \/ CallGetOrCreate]_vars

\* C26: after retain_only(K) the keys of the pool are those of K that were
\* in the pool before, each with the handle it had
RetainOnlyKeepsListedHandles ==
    (ret # None /\ args.op = "retain_only") =>
        /\ DOMAIN ret[1] = args.keys_to_keep \cap DOMAIN args.pool
        /\ \A k \in DOMAIN ret[1] : ret[1][k] = args.pool[k]

\* a pool of three backends retained on two keys, one of them not in the pool
RetainedOneOfThree ==
    /\ ret # None
    /\ args.op = "retain_only"
    /\ DOMAIN args.pool = PoolKeys
    /\ args.keys_to_keep = {K2, GONE}
    /\ ret[1] = (K2 :> args.pool[K2])

\* C27: get_or_create returns the key address:port; after a success get(key)
\* returns a handle; for a key already in the pool it succeeds and leaves the
\* pool as it was, creating nothing; after a failure the pool is as it was
GetOrCreateKeyAndPool ==
    (ret # None /\ args.op = "get_or_create") =>
        /\ ret[1].key = args.address \o ":" \o ToString(args.port)
        /\ ret[1].ok => BackendPool_get(ret[1].pool, ret[1].key) # None
        /\ ret[1].key \in DOMAIN args.pool => ret[1].ok /\ ret[1].pool = args.pool
        /\ ~ret[1].ok => ret[1].pool = args.pool
        /\ ret[1].ok =>
               /\ \A k \in DOMAIN args.pool : ret[1].pool[k] = args.pool[k]
               /\ DOMAIN ret[1].pool = DOMAIN args.pool \cup {ret[1].key}

\* a backend created in a pool that held another, found by get under its key
CreatedSecondBackend ==
    /\ ret # None
    /\ args.op = "get_or_create"
    /\ DOMAIN args.pool = {K1}
    /\ ret[1].ok
    /\ ret[1].key = "10.0.0.2:80"
    /\ BackendPool_get(ret[1].pool, "10.0.0.2:80") = Some([key |-> "10.0.0.2:80", by |-> 2])
    /\ BackendPool_get(ret[1].pool, K1) = Some(args.pool[K1])

---------------------------------------------------------------------------
(* director.rs: QueryParamMatchCompiled::matches on every short query      *)

MaxQueryLen == 6

QueryChars == {"n", "=", "&", "2"}

\* matches on the parameter n: the value 2, the empty value, a regex for 22 or 2=
QueryParamMatches ==
    {[kind |-> "Exact", name |-> <<"n">>, value |-> <<"2">>],
     [kind |-> "Exact", name |-> <<"n">>, value |-> <<>>],
     [kind |-> "Regex", name |-> <<"n">>, accepts |-> {<<"2", "2">>, <<"2", "=">>}]}

QueryInit ==
    /\ DirIdle
    /\ args \in [qpm : QueryParamMatches, query_string : SeqsUpTo(QueryChars, MaxQueryLen)]
    /\ ret = None

CallQueryParamMatches ==
    /\ ret = None
    /\ ret' = <<QueryParamMatchCompiled_matches(args.qpm, args.query_string)>>
    /\ UNCHANGED <<dirVars, statVars, body, libVars, args>>

SpecQuery == QueryInit /\ [][CallQueryParamMatches]_vars

\* q[a..b] is one of the pieces of q between '&' characters
is_piece(q, a, b) ==
    /\ a = 1 \/ q[a - 1] = "&"
    /\ b = Len(q) \/ q[b + 1] = "&"
    /\ \A i \in a..b : q[i] # "&"

\* the piece q[a..b] is name=value with its first '=' at e
names_at(q, a, b, e, name) ==
    /\ is_piece(q, a, b)
    /\ e \in a..b
    /\ q[e] = "="
    /\ \A i \in a..(e - 1) : q[i] # "="
    /\ SubSeq(q, a, e - 1) = name

\* some piece of q that starts before a names the parameter
named_before(q, a, name) ==
    \E a0 \in 1..(a - 1), b0 \in 0..Len(q), e0 \in 1..Len(q) : names_at(q, a0, b0, e0, name)

value_satisfies(qpm, value) ==
    IF qpm.kind = "Exact" THEN value = qpm.value ELSE value \in qpm.accepts

\* C28: a query-parameter match on n holds exactly when some piece of the
\* query string is n=value, and the value of the first such piece satisfies
\* the match; later pieces of the name and pieces without '=' do not count
QueryParamFirstPairDecides ==
    ret # None =>
        (ret[1] <=>
            \E a \in 1..(Len(args.query_string) + 1), b \in 0..Len(args.query_string),
               e \in 1..Len(args.query_string) :
                /\ names_at(args.query_string, a, b, e, args.qpm.name)
                /\ ~named_before(args.query_string, a, args.qpm.name)
                /\ value_satisfies(args.qpm, SubSeq(args.query_string, e + 1, b)))

\* n=&n=2 against the value 2: the second pair is ignored
SecondPairOfNameIgnored ==
    /\ args.query_string = <<"n", "=", "&", "n", "=", "2">>
    /\ args.qpm.kind = "Exact"
    /\ args.qpm.value = <<"2">>
    /\ ret = <<FALSE>>

---------------------------------------------------------------------------
(* routing.rs: match_vhost, and the answer lib.rs gives for its result     *)

Found(vhost) == [kind |-> "Found", vhost |-> Some(vhost)]
NotFound == [kind |-> "NotFound", vhost |-> None]
NoBackends == [kind |-> "NoBackends", vhost |-> None]

\* lines 21-25 and 31-35
vhost_result(vhost) == IF vhost.backends = <<>> THEN NoBackends ELSE Found(vhost)

\* lines 40-44
default_result(default) ==
    IF default = None THEN NotFound ELSE vhost_result(default[1])

\* lines 29-37: the loop over config.vhosts, visited in the order the map yields
RECURSIVE wildcard_result(_, _, _)
wildcard_result(config, host, order) ==
    IF order = <<>> THEN default_result(config.default)
    ELSE IF matches_wildcard(Head(order), host) THEN vhost_result(config.vhosts[Head(order)])
    ELSE wildcard_result(config, host, Tail(order))

\* an exact vhost without backends passed over for the later tiers
match_lowercased_vhost_falls_through(config, host, order) ==
    IF host \in DOMAIN config.vhosts /\ config.vhosts[host].backends # <<>>
    THEN Found(config.vhosts[host])
    ELSE wildcard_result(config, host, order)

\* lines 19-44 for the lowercased host
match_lowercased_vhost(config, host, order) ==
    IF host \in DOMAIN config.vhosts THEN vhost_result(config.vhosts[host])
    ELSE wildcard_result(config, host, order)

\* match_vhost; order: the keys of config.vhosts as the iteration yields them
match_vhost(config, host, order) ==
    match_lowercased_vhost(config, to_lowercase(host), order)

\* lib.rs 106-128: the status answered at once for the result m, none when
\* the request goes on to a backend
synth_status(m) ==
    CASE m.kind = "NotFound" -> Some(404)
      [] m.kind = "NoBackends" -> Some(503)
      [] OTHER -> None

H_a_x == <<"a", ".", "x">>
H_A_x == <<"A", ".", "x">>
H_b_a_x == <<"b", ".", "a", ".", "x">>
W_star_x == <<"*", ".", "x">>
W_star_a_x == <<"*", ".", "a", ".", "x">>

VhostNames == {H_a_x, H_A_x, W_star_x, W_star_a_x}

\* the backend port tells the vhosts apart
VhostBackends(n) ==
    CASE n = H_a_x -> <<[address |-> "10.0.0.1", port |-> 1, weight |-> 1]>>
      [] n = H_A_x -> <<[address |-> "10.0.0.1", port |-> 2, weight |-> 1]>>
      [] n = W_star_x -> <<[address |-> "10.0.0.1", port |-> 3, weight |-> 1]>>
      [] n = W_star_a_x -> <<[address |-> "10.0.0.1", port |-> 4, weight |-> 1]>>
      [] OTHER -> <<[address |-> "10.0.0.1", port |-> 9, weight |-> 1]>>

\* each name absent, without backends or with its backend; no default, a
\* default without backends or a default with a backend
VhostConfigs ==
    {[version |-> 1,
      vhosts |-> [n \in DOMAIN filled |->
                     [backends |-> IF filled[n] THEN VhostBackends(n) ELSE <<>>]],
      default |-> d] :
        filled \in UNION {[ns -> BOOLEAN] : ns \in SUBSET VhostNames},
        d \in {None, Some([backends |-> <<>>]),
               Some([backends |-> VhostBackends(<<>>)])}}

VhostHosts == {H_a_x, H_A_x, H_b_a_x, W_star_x, <<"x">>}

\* the orders in which the keys of a map can be visited
Orders(keys) ==
    {o \in [1..Cardinality(keys) -> keys] :
        \A i, j \in 1..Cardinality(keys) : i # j => o[i] # o[j]}

MatchVhostInit ==
    /\ DirIdle
    /\ args \in [config : VhostConfigs, host : VhostHosts]
    /\ ret = None

CallMatchVhost ==
    /\ ret = None
    /\ \E order \in Orders(DOMAIN args.config.vhosts) :
           ret' = <<[result |-> match_vhost(args.config, args.host, order),
                     status |-> synth_status(match_vhost(args.config, args.host, order))]>>
    /\ UNCHANGED <<dirVars, statVars, body, libVars, args>>

SpecMatchVhost == MatchVhostInit /\ [][CallMatchVhost]_vars

\* the pattern is "*." and a suffix, and host is one label in front of "." and
\* that suffix
wildcard_covers(pattern, host) ==
    /\ Len(pattern) >= 2 /\ pattern[1] = "*" /\ pattern[2] = "."
    /\ \E n \in 1..Len(host) :
           /\ SubSeq(host, n + 1, Len(host)) = Tail(pattern)
           /\ \A i \in 1..n : host[i] # "."

\* the vhosts the three tiers offer for the lowercased host h: the exact
\* one, else the matching wildcards, else the default
picked_vhosts(config, h) ==
    IF h \in DOMAIN config.vhosts THEN {config.vhosts[h]}
    ELSE IF \E p \in DOMAIN config.vhosts : wildcard_covers(p, h)
    THEN {config.vhosts[p] : p \in {q \in DOMAIN config.vhosts : wildcard_covers(q, h)}}
    ELSE IF config.default # None THEN {config.default[1]}
    ELSE {}

\* C29: match_vhost picks the exact vhost of the lowercased host, else the
\* matching wildcard vhost, else the default; the result is Found with the
\* picked vhost when it has a backend, NoBackends (503) when it has none, and
\* NotFound (404) when no tier offers a vhost
MatchVhostTiers ==
    ret # None =>
        /\ Cardinality(picked_vhosts(args.config, to_lowercase(args.host))) <= 1
        /\ ret[1].result.kind = "Found" <=>
               \E v \in picked_vhosts(args.config, to_lowercase(args.host)) :
                   v.backends # <<>> /\ ret[1].result.vhost = Some(v)
        /\ ret[1].result.kind = "NoBackends" <=>
               \E v \in picked_vhosts(args.config, to_lowercase(args.host)) :
                   v.backends = <<>>
        /\ ret[1].result.kind = "NotFound" <=>
               picked_vhosts(args.config, to_lowercase(args.host)) = {}
        /\ ret[1].status = (CASE ret[1].result.kind = "NotFound" -> Some(404)
                              [] ret[1].result.kind = "NoBackends" -> Some(503)
                              [] OTHER -> None)

\* the exact vhost of A.x has no backends while a wildcard vhost that would
\* match and the default have one: the answer is 503
ExactWithoutBackendsDoesNotFallThrough ==
    /\ ret # None
    /\ args.host = H_A_x
    /\ H_a_x \in DOMAIN args.config.vhosts
    /\ args.config.vhosts[H_a_x].backends = <<>>
    /\ W_star_x \in DOMAIN args.config.vhosts
    /\ args.config.vhosts[W_star_x].backends # <<>>
    /\ args.config.default = Some([backends |-> VhostBackends(<<>>)])
    /\ ret[1].result = NoBackends
    /\ ret[1].status = Some(503)

---------------------------------------------------------------------------
(* response.rs, not_found_backend.rs, internal_error_backend.rs: reading a *)
(* buffered body.  delivered and last are history: the bytes the reads     *)
(* have copied out so far, and the last read's buffer length, the bytes    *)
(* that remained before it and its result.                                 *)

MaxDataLen == 3
MaxBufLen == 2

Bytes == {"x", "y"}

\* not_found_backend.rs 32
NOT_FOUND_DATA ==
    <<"{", "\"", "e", "r", "r", "o", "r", "\"", ":", " ", "\"", "v", "h", "o", "s",
      "t", " ", "n", "o", "t", " ", "f", "o", "u", "n", "d", "\"", "}">>

\* internal_error_backend.rs 31
INTERNAL_ERROR_DATA ==
    <<"{", "\"", "e", "r", "r", "o", "r", "\"", ":", " ", "\"", "n", "o", " ", "b",
      "a", "c", "k", "e", "n", "d", "s", " ", "a", "v", "a", "i", "l", "a", "b", "l",
      "e", "\"", "}">>

new_body(kind, data) ==
    [kind |-> kind, data |-> data, cursor |-> 0, delivered |-> <<>>, last |-> None]

min(a, b) == IF a < b THEN a ELSE b

\* the body after to_copy bytes were copied into a buffer of buf_len bytes
copied(b, buf_len, to_copy) ==
    [b EXCEPT !.cursor = @ + to_copy,
              !.delivered = @ \o SubSeq(b.data, b.cursor + 1, b.cursor + to_copy),
              !.last = Some([buf_len |-> buf_len, remaining |-> Len(b.data) - b.cursor,
                             n |-> to_copy])]

\* read that copies without moving the cursor
Buffered_read_without_advance(b, buf_len) ==
    [copied(b, buf_len, min(Len(b.data) - b.cursor, buf_len)) EXCEPT !.cursor = b.cursor]

\* response.rs 60-71: ResponseBody::read of a Buffered body
Buffered_read(b, buf_len) ==
    IF Len(b.data) - b.cursor = 0 THEN copied(b, buf_len, 0)
    ELSE copied(b, buf_len, min(Len(b.data) - b.cursor, buf_len))

\* not_found_backend.rs 39-47
NotFoundBody_read(b, buf_len) ==
    copied(b, buf_len, min(Len(slice_from(b.data, b.cursor)), buf_len))

\* internal_error_backend.rs 38-46
InternalErrorBody_read(b, buf_len) ==
    copied(b, buf_len, min(Len(slice_from(b.data, b.cursor)), buf_len))

\* len() of the three bodies
body_len(b) == Some(Len(b.data))

\* ResponseBody::buffered(data)
BufferedNew(data) ==
    /\ body = None
    /\ body' = Some(new_body("Buffered", data))
    /\ UNCHANGED <<dirVars, statVars, libVars, args, ret>>

NotFoundBodyNew ==
    /\ body = None
    /\ body' = Some(new_body("NotFoundBody", NOT_FOUND_DATA))
    /\ UNCHANGED <<dirVars, statVars, libVars, args, ret>>

InternalErrorBodyNew ==
    /\ body = None
    /\ body' = Some(new_body("InternalErrorBody", INTERNAL_ERROR_DATA))
    /\ UNCHANGED <<dirVars, statVars, libVars, args, ret>>

\* read(buf) with a buffer of buf_len bytes
BodyRead(buf_len) ==
    /\ body # None
    /\ body' = Some(CASE body[1].kind = "Buffered" -> Buffered_read(body[1], buf_len)
                       [] body[1].kind = "NotFoundBody" -> NotFoundBody_read(body[1], buf_len)
                       [] OTHER -> InternalErrorBody_read(body[1], buf_len))
    /\ UNCHANGED <<dirVars, statVars, libVars, args, ret>>

BodyInit == DirIdle /\ PureIdle

BodyNext ==
    \/ \E data \in SeqsUpTo(Bytes, MaxDataLen) : BufferedNew(data)
    \/ NotFoundBodyNew
    \/ InternalErrorBodyNew
    \/ \E buf_len \in 0..MaxBufLen : BodyRead(buf_len)

SpecBody == BodyInit /\ [][BodyNext]_vars

\* C30: the reads of a buffered body have returned the first cursor bytes of
\* the data, in order and once; each read returns the smaller of the bytes
\* that remained and the buffer length, so 0 once nothing remains; the
\* cursor is at most the data length; len() is the data length
BodyReadsDeliverDataOnce ==
    body # None =>
        /\ body[1].cursor <= Len(body[1].data)
        /\ body[1].delivered = SubSeq(body[1].data, 1, body[1].cursor)
        /\ body[1].last # None =>
               /\ body[1].last[1].n
                      = (IF body[1].last[1].remaining < body[1].last[1].buf_len
                         THEN body[1].last[1].remaining ELSE body[1].last[1].buf_len)
               /\ body[1].last[1].remaining = 0 => body[1].last[1].n = 0
        /\ body_len(body[1]) = Some(Len(body[1].data))

\* three bytes read through a buffer of two, and a read after the end
BufferedReadPastEnd ==
    /\ body # None
    /\ body[1].kind = "Buffered"
    /\ body[1].data = <<"x", "y", "x">>
    /\ body[1].delivered = <<"x", "y", "x">>
    /\ body[1].last = Some([buf_len |-> 2, remaining |-> 0, n |-> 0])

---------------------------------------------------------------------------
(* lib.rs and runtime.rs: get_response hands a request to the background  *)
(* runtime and waits for the answer; reload_config replaces the            *)
(* configuration under the lock of STATE.  A request is named by its       *)
(* worker and the number of the fetch.  In a task, sends counts the        *)
(* successful sends on the oneshot channel and chunks the chunks put on    *)
(* the body channel (history).                                             *)

\* calls of get_response and of reload_config, over all threads
MaxFetches == 1
MaxLibReloads == 2
MaxChunks == 1

\* runtime.rs 100: mpsc::channel(16)
BODY_CHANNEL_CAPACITY == 16

\* what lines 96-138 find for the request: an error before the match, no
\* vhost, a vhost without backends, or a target to send the request to
RouteOutcomes == {"error", "404", "503", "proxy"}

\* STATE.read() is granted
read_locked(state, w) == [state EXCEPT !.readers = @ \cup {w}]

\* the read guard of w goes out of scope or is dropped
read_unlocked(state, w) == [state EXCEPT !.readers = @ \ {w}]

\* the request is built with the guard of line 89 still alive
proxy_prepared_holding_guard(state, w) == state

\* lib.rs 147: drop(state_guard)
proxy_prepared(state, w) == read_unlocked(state, w)

\* lib.rs 89: STATE.read() waits while a writer holds the lock
GetResponseRead(w) ==
    /\ lw[w].pc = "idle"
    /\ sum_of([t \in LibWorkers |-> lw[t].fetches], LibWorkers) < MaxFetches
    /\ ghost_state.writer = None
    /\ ghost_state' = read_locked(ghost_state, w)
    /\ lw' = [lw EXCEPT ![w].pc = "route", ![w].fetches = @ + 1, ![w].request = None,
                        ![w].result = None]
    /\ UNCHANGED <<dirVars, statVars, body, args, ret, rt, body_ch>>

\* lib.rs 90-147: every return before line 147 ends the scope of the guard
GetResponseRoute(w, outcome) ==
    /\ lw[w].pc = "route"
    /\ IF outcome = "proxy"
       THEN /\ ghost_state' = proxy_prepared(ghost_state, w)
            /\ lw' = [lw EXCEPT ![w].pc = "send"]
       ELSE /\ ghost_state' = read_unlocked(ghost_state, w)
            /\ lw' = [lw EXCEPT ![w].pc = "idle", ![w].result = Some(outcome)]
    /\ UNCHANGED <<dirVars, statVars, body, args, ret, rt, body_ch>>

\* a request as the runtime holds it.  tx: the oneshot sender is alive;
\* answer: the value in the oneshot channel; body_rx: "none" before the body
\* channel exists, then "open" until the receiver is dropped
new_task ==
    [pc |-> "queued", tx |-> TRUE, answer |-> None, sends |-> 0, received |-> FALSE,
     body_rx |-> "none", body_tx |-> FALSE, queued |-> 0, chunks |-> 0]

\* lib.rs 149-163: the oneshot channel is made and the request sent to the
\* runtime; the runtime lives as long as the VCL, so the send succeeds
GetResponseSend(w) ==
    /\ lw[w].pc = "send"
    /\ rt' = [queue |-> Append(rt.queue, <<w, lw[w].fetches>>),
              tasks |-> [id \in DOMAIN rt.tasks \cup {<<w, lw[w].fetches>>} |->
                            IF id = <<w, lw[w].fetches>> THEN new_task ELSE rt.tasks[id]]]
    /\ lw' = [lw EXCEPT ![w].pc = "recv", ![w].request = Some(<<w, lw[w].fetches>>)]
    /\ UNCHANGED <<dirVars, statVars, body, args, ret, ghost_state, body_ch>>

\* lib.rs 166-169: blocking_recv returns the answer, or an error once the
\* sender is gone without one
GetResponseRecv(w) ==
    /\ lw[w].pc = "recv"
    /\ \/ /\ rt.tasks[lw[w].request[1]].answer = Some("head")
          /\ lw' = [lw EXCEPT ![w].pc = "body", ![w].result = Some("head")]
          /\ rt' = [rt EXCEPT !.tasks[lw[w].request[1]].received = TRUE]
       \/ /\ rt.tasks[lw[w].request[1]].answer = Some("error")
          /\ lw' = [lw EXCEPT ![w].pc = "idle", ![w].result = Some("failed")]
          /\ rt' = [rt EXCEPT !.tasks[lw[w].request[1]].received = TRUE]
       \/ /\ rt.tasks[lw[w].request[1]].answer = None
          /\ ~rt.tasks[lw[w].request[1]].tx
          /\ lw' = [lw EXCEPT ![w].pc = "idle", ![w].result = Some("cancelled")]
          /\ rt' = rt
    /\ UNCHANGED <<dirVars, statVars, body, args, ret, ghost_state, body_ch>>

\* response.rs 89-107: the body returned by get_response takes a chunk
BodyRecvChunk(w) ==
    /\ lw[w].pc = "body"
    /\ rt.tasks[lw[w].request[1]].queued > 0
    /\ rt' = [rt EXCEPT !.tasks[lw[w].request[1]].queued = @ - 1]
    /\ UNCHANGED <<dirVars, statVars, body, args, ret, ghost_state, lw, body_ch>>

\* the body is dropped, read to the end or not, and with it the receiver
BodyDropped(w) ==
    /\ lw[w].pc = "body"
    /\ rt' = [rt EXCEPT !.tasks[lw[w].request[1]].body_rx = "dropped",
                        !.tasks[lw[w].request[1]].queued = 0]
    /\ lw' = [lw EXCEPT ![w].pc = "idle"]
    /\ UNCHANGED <<dirVars, statVars, body, args, ret, ghost_state, body_ch>>

\* lib.rs 270: reload_config takes the read lock
ReloadConfigRead(w) ==
    /\ lw[w].pc = "idle"
    /\ sum_of([t \in LibWorkers |-> lw[t].reloads], LibWorkers) < MaxLibReloads
    /\ ghost_state.writer = None
    /\ ghost_state' = read_locked(ghost_state, w)
    /\ lw' = [lw EXCEPT ![w].pc = "reload_path", ![w].reloads = @ + 1,
                        ![w].request = None, ![w].result = None]
    /\ UNCHANGED <<dirVars, statVars, body, args, ret, rt, body_ch>>

\* lib.rs 271-274: the path is cloned and the guard dropped
ReloadConfigDrop(w) ==
    /\ lw[w].pc = "reload_path"
    /\ ghost_state' = read_unlocked(ghost_state, w)
    /\ lw' = [lw EXCEPT ![w].pc = "reload_load"]
    /\ UNCHANGED <<dirVars, statVars, body, args, ret, rt, body_ch>>

\* lib.rs 276: config::load(&config_path)?
ReloadConfigLoad(w, ok) ==
    /\ lw[w].pc = "reload_load"
    /\ lw' = [lw EXCEPT ![w].pc = IF ok THEN "reload_write" ELSE "idle",
                        ![w].result = IF ok THEN None ELSE Some("load_err")]
    /\ UNCHANGED <<dirVars, statVars, body, args, ret, ghost_state, rt, body_ch>>

\* lib.rs 280: STATE.write() waits until no guard is alive
ReloadConfigWrite(w) ==
    /\ lw[w].pc = "reload_write"
    /\ ghost_state.writer = None
    /\ ghost_state.readers = {}
    /\ ghost_state' = [ghost_state EXCEPT !.writer = Some(w)]
    /\ lw' = [lw EXCEPT ![w].pc = "reload_store"]
    /\ UNCHANGED <<dirVars, statVars, body, args, ret, rt, body_ch>>

\* lib.rs 281-283: the new state is stored and the write guard goes out of scope
ReloadConfigStore(w) ==
    /\ lw[w].pc = "reload_store"
    /\ ghost_state' = [ghost_state EXCEPT !.writer = None,
                                          !.config = Some(ghost_state.config[1] + 1)]
    /\ lw' = [lw EXCEPT ![w].pc = "idle", ![w].result = Some("reloaded")]
    /\ UNCHANGED <<dirVars, statVars, body, args, ret, rt, body_ch>>

\* runtime.rs 72-76: the loop takes the next request and spawns its task
RequestLoopRecv ==
    /\ rt.queue # <<>>
    /\ rt' = [rt EXCEPT !.queue = Tail(@), !.tasks[Head(rt.queue)].pc = "sending"]
    /\ UNCHANGED <<dirVars, statVars, body, args, ret, ghost_state, lw, body_ch>>

\* the worker of the request still waits on the oneshot receiver
oneshot_rx_alive(id) == lw[id[1]].pc = "recv" /\ lw[id[1]].request = Some(id)

\* response_tx.send(value), which consumes the sender and fails when the
\* receiver is gone
oneshot_send(task, value, rx_alive) ==
    IF rx_alive THEN [task EXCEPT !.tx = FALSE, !.answer = Some(value), !.sends = @ + 1]
    ELSE [task EXCEPT !.tx = FALSE]

\* runtime.rs 91-111: the body channel is made, the head sent, and the task
\* goes on to the body unless the send failed
head_sent(task, rx_alive) ==
    IF rx_alive
    THEN [oneshot_send(task, "head", rx_alive) EXCEPT !.pc = "streaming",
                                                      !.body_rx = "open", !.body_tx = TRUE]
    ELSE [oneshot_send(task, "head", rx_alive) EXCEPT !.pc = "done"]

\* the task ends on an upstream error while it keeps the sender and sends nothing
error_left_unsent(task, rx_alive) == [task EXCEPT !.pc = "done"]

\* runtime.rs 131-133
error_sent(task, rx_alive) == [oneshot_send(task, "error", rx_alive) EXCEPT !.pc = "done"]

\* runtime.rs 88-134: builder.send().await has returned, with a response or an
\* error (the client's timeout bounds the wait)
UpstreamResponded(id, ok) ==
    /\ id \in DOMAIN rt.tasks
    /\ rt.tasks[id].pc = "sending"
    /\ rt' = [rt EXCEPT !.tasks[id] = IF ok THEN head_sent(@, oneshot_rx_alive(id))
                                      ELSE error_sent(@, oneshot_rx_alive(id))]
    /\ UNCHANGED <<dirVars, statVars, body, args, ret, ghost_state, lw, body_ch>>

\* runtime.rs 116-122: the stream yields a chunk; body_tx.send waits while the
\* channel is full and fails once the receiver is dropped
StreamChunk(id) ==
    /\ id \in DOMAIN rt.tasks
    /\ rt.tasks[id].pc = "streaming"
    /\ rt.tasks[id].chunks < MaxChunks
    /\ rt.tasks[id].body_rx = "dropped" \/ rt.tasks[id].queued < BODY_CHANNEL_CAPACITY
    /\ rt' = [rt EXCEPT !.tasks[id] =
                  IF @.body_rx = "dropped" THEN [@ EXCEPT !.pc = "done", !.body_tx = FALSE]
                  ELSE [@ EXCEPT !.queued = @ + 1, !.chunks = @ + 1]]
    /\ UNCHANGED <<dirVars, statVars, body, args, ret, ghost_state, lw, body_ch>>

\* runtime.rs 123-126: the stream yields an error, which is sent if it can be
StreamFailed(id) ==
    /\ id \in DOMAIN rt.tasks
    /\ rt.tasks[id].pc = "streaming"
    /\ rt.tasks[id].body_rx = "dropped" \/ rt.tasks[id].queued < BODY_CHANNEL_CAPACITY
    /\ rt' = [rt EXCEPT !.tasks[id] =
                  IF @.body_rx = "dropped" THEN [@ EXCEPT !.pc = "done", !.body_tx = FALSE]
                  ELSE [@ EXCEPT !.pc = "done", !.body_tx = FALSE, !.queued = @ + 1,
                                 !.chunks = @ + 1]]
    /\ UNCHANGED <<dirVars, statVars, body, args, ret, ghost_state, lw, body_ch>>

\* runtime.rs 116, 129: the stream is at its end and body_tx is dropped
StreamEnded(id) ==
    /\ id \in DOMAIN rt.tasks
    /\ rt.tasks[id].pc = "streaming"
    /\ rt' = [rt EXCEPT !.tasks[id].pc = "done", !.tasks[id].body_tx = FALSE]
    /\ UNCHANGED <<dirVars, statVars, body, args, ret, ghost_state, lw, body_ch>>

\* runtime.rs 74-76: a spawned task ends without running to its end when it
\* panics or the runtime is dropped; what it owns is dropped with it
TaskDropped(id) ==
    /\ id \in DOMAIN rt.tasks
    /\ rt.tasks[id].pc \in {"sending", "streaming"}
    /\ rt' = [rt EXCEPT !.tasks[id].pc = "done", !.tasks[id].tx = FALSE,
                        !.tasks[id].body_tx = FALSE]
    /\ UNCHANGED <<dirVars, statVars, body, args, ret, ghost_state, lw, body_ch>>

LibRequests == LibWorkers \X (1..(MaxFetches + 1))

LibInit == DirIdle /\ PureIdle

WorkerStep(w) ==
    \/ GetResponseRead(w)
    \/ \E outcome \in RouteOutcomes : GetResponseRoute(w, outcome)
    \/ GetResponseSend(w)
    \/ GetResponseRecv(w)
    \/ BodyRecvChunk(w)
    \/ BodyDropped(w)

ReloadStep(w) ==
    \/ ReloadConfigRead(w)
    \/ ReloadConfigDrop(w)
    \/ \E ok \in BOOLEAN : ReloadConfigLoad(w, ok)
    \/ ReloadConfigWrite(w)
    \/ ReloadConfigStore(w)

RuntimeStep ==
    \/ RequestLoopRecv
    \/ \E id \in LibRequests :
           \/ \E ok \in BOOLEAN : UpstreamResponded(id, ok)
           \/ StreamChunk(id)
           \/ StreamFailed(id)
           \/ StreamEnded(id)
           \/ TaskDropped(id)

LibNext == (\E w \in LibWorkers : WorkerStep(w) \/ ReloadStep(w)) \/ RuntimeStep

\* the steps a thread takes on its own while it holds or wants the lock are
\* taken; nothing is assumed of the runtime or of the upstream
SpecLibLocks ==
    /\ LibInit
    /\ [][LibNext]_vars
    /\ \A w \in LibWorkers :
           /\ WF_vars(\E outcome \in RouteOutcomes : GetResponseRoute(w, outcome))
           /\ WF_vars(ReloadConfigDrop(w))
           /\ WF_vars(ReloadConfigWrite(w))
           /\ WF_vars(ReloadConfigStore(w))

\* a thread keeps a read guard of STATE only inside lines 89-147 and 270-274
holds_no_guard_while_waiting ==
    \A w \in LibWorkers :
        lw[w].pc \in {"send", "recv", "body", "reload_load", "reload_write"}
            => w \notin ghost_state.readers

\* C31: a thread that waits for the runtime, or for the write lock, holds no
\* read guard of STATE, and a reload_config that wants the write lock gets
\* it and returns, whatever the upstream requests in flight do
ReloadNeverWaitsForUpstream ==
    /\ []holds_no_guard_while_waiting
    /\ \A w \in LibWorkers : (lw[w].pc = "reload_write") ~> (lw[w].pc = "idle")

\* one worker waits for an answer the runtime has not produced while the
\* other has reloaded the configuration after that request was sent
ReloadedDuringUpstreamWait ==
    /\ lw["w1"].pc = "recv"
    /\ <<"w1", 1>> \in DOMAIN rt.tasks
    /\ rt.tasks[<<"w1", 1>>].pc = "sending"
    /\ lw["w2"].pc = "idle"
    /\ lw["w2"].result = Some("reloaded")
    /\ lw["w2"].fetches = 0
    /\ ghost_state.config = Some(1)

\* the runtime takes every request it was sent, every upstream request comes
\* back (the client has a timeout), and a worker whose receiver can return
\* does return
SpecLibFair ==
    /\ LibInit
    /\ [][LibNext]_vars
    /\ WF_vars(RequestLoopRecv)
    /\ \A id \in LibRequests : WF_vars(\E ok \in BOOLEAN : UpstreamResponded(id, ok))
    /\ \A w \in LibWorkers : WF_vars(GetResponseRecv(w))

\* no request was answered twice, and chunks were sent only for a request
\* whose head was put in the oneshot channel
answered_once_head_first ==
    \A id \in DOMAIN rt.tasks :
        /\ rt.tasks[id].sends <= 1
        /\ rt.tasks[id].chunks > 0 =>
               rt.tasks[id].sends = 1 /\ rt.tasks[id].answer = Some("head")

\* a worker that left get_response after it sent a request holds the head, the
\* request error, or the error of a sender dropped without an answer
released_with_answer ==
    \A w \in LibWorkers :
        (lw[w].request # None /\ lw[w].pc \in {"idle", "body"}) =>
            \/ lw[w].result = Some("head")
                   /\ rt.tasks[lw[w].request[1]].answer = Some("head")
            \/ lw[w].result = Some("failed")
                   /\ rt.tasks[lw[w].request[1]].answer = Some("error")
            \/ lw[w].result = Some("cancelled")
                   /\ rt.tasks[lw[w].request[1]].answer = None
                   /\ ~rt.tasks[lw[w].request[1]].tx

\* no chunk is put on a body channel whose receiver is dropped
no_chunk_after_drop ==
    \A id \in DOMAIN rt.tasks :
        rt.tasks[id].body_rx = "dropped" => rt'.tasks[id].chunks = rt.tasks[id].chunks

---------------------------------------------------------------------------
(* director.rs: two callers of reload on one director, nothing keeping     *)
(* the one out while the other runs                                        *)

OverlapCallers == {"admin", "worker"}

OverlapInit ==
    /\ \E b \in InitialBuilds :
           /\ routing = b.routing
           /\ backends = b.pool
    /\ routing_by = 0
    /\ backends_by = 0
    /\ reloads = 0
    /\ rl = [c \in OverlapCallers |-> IdleReload]
    /\ rs = [w \in Workers |-> IdleResolve]
    /\ PureIdle

OverlapNext ==
    \/ \E c \in OverlapCallers, file \in Files, refused \in Refusals :
           ReloadPrepare(c, file, refused)
    \/ \E c \in OverlapCallers : ReloadStoreRouting(c)
    \/ \E c \in OverlapCallers : ReloadStoreBackends(c)

SpecOverlap == OverlapInit /\ [][OverlapNext]_vars

\* C33: once every reload call has returned, the published routing state and
\* the published pool were stored by the same reload, and every key the
\* routing state refers to is in the pool
OverlappingReloadsPublishOnePair ==
    (\A c \in OverlapCallers : rl[c].pc = "idle") =>
        /\ routing_by = backends_by
        /\ collect_referenced_backends(routing) \subseteq DOMAIN backends

---------------------------------------------------------------------------
(* director.rs: the routing state is built from a map of vhosts, which has *)
(* no order of its own                                                     *)

B3 == [address |-> "::1", port |-> 80, weight |-> 1]

\* vhosts of a validated configuration: two wildcards of different depth,
\* the wildcard without a label, and a wildcard in capitals
OrderVhosts ==
    {VhostOf(W_star_x, <<CatchAll(<<B1>>, 1)>>),
     VhostOf(W_star_a_x, <<PrefixRoute(P_api, <<B2>>)>>),
     VhostOf(<<"*", ".">>, <<CatchAll(<<B2>>, 1)>>),
     VhostOf(<<"*", ".", "X">>, <<CatchAll(<<B3>>, 1)>>)}

OrderHosts == {H_a_x, H_A_x, H_b_a_x, <<"b", ".", "x">>, <<"a", ".">>, <<"x">>}

\* the configuration of the vhosts vs visited in the order o
ConfigInOrder(o) ==
    [version |-> 2, vhosts |-> o, default |-> None]

OrderInit ==
    /\ DirIdle
    /\ args \in {a \in [vhosts : SUBSET OrderVhosts, host : OrderHosts,
                         path : {Root, P_api}] :
                      \A o \in Orders(a.vhosts) : validate_v2(ConfigInOrder(o))}
    /\ ret = None

\* the route match_host_and_path finds in the routing state built of config
route_found(config, host, path) ==
    match_host_and_path(build_routing_state(config, <<>>, 0, {}).routing, host, path,
                        "GET", <<>>, None)

\* two routing states built of the same configuration, the map visited in
\* the orders o1 and o2, resolve the same request
CallResolveInTwoOrders ==
    /\ ret = None
    /\ \E o1, o2 \in Orders(args.vhosts) :
           ret' = <<[first |-> route_found(ConfigInOrder(o1), args.host, args.path),
                     second |-> route_found(ConfigInOrder(o2), args.host, args.path)]>>
    /\ UNCHANGED <<dirVars, statVars, body, libVars, args>>

SpecOrder == OrderInit /\ [][CallResolveInTwoOrders]_vars

\* C34: at most one wildcard of the configuration matches the host, and the
\* routing states built in two orders of the vhost map find the same route
WildcardChoiceIsOrderFree ==
    ret # None =>
        /\ Cardinality({v \in args.vhosts :
                            matches_wildcard(v.hostname, to_lowercase(args.host))}) <= 1
        /\ ret[1].first = ret[1].second

\* b.a.x with both wildcards configured: only *.a.x matches, and its route
\* is found in either order
DeeperWildcardAloneMatches ==
    /\ ret # None
    /\ args.host = H_b_a_x
    /\ args.path = P_api
    /\ Cardinality(args.vhosts) = 4
    /\ ret[1].first = ret[1].second
    /\ ret[1].first = Some(<<[key |-> "10.0.0.2:80", weight |-> 2]>>)

---------------------------------------------------------------------------
(* select_backend_weighted, select_backend: the u32 arithmetic of the      *)
(* total and of the running cumulative weight.  A u32 is its 32-bit        *)
(* pattern read in two's complement, as in LoadWeights; sums are taken on  *)
(* the 16-bit halves.                                                      *)

Half == 65536

u32_hi(w) == IF w < 0 THEN (w \div Half) + Half ELSE w \div Half
u32_lo(w) == w % Half

\* the pattern of the u32 with the halves hi and lo
u32_of(hi, lo) == IF hi >= Half \div 2 THEN (hi - Half) * Half + lo ELSE hi * Half + lo

carry_of(a, b) == (u32_lo(a) + u32_lo(b)) \div Half

\* a + b leaves the range of u32
add_overflows(a, b) == u32_hi(a) + u32_hi(b) + carry_of(a, b) >= Half

\* a + b modulo 2^32
wrapping_add(a, b) ==
    u32_of((u32_hi(a) + u32_hi(b) + carry_of(a, b)) % Half, (u32_lo(a) + u32_lo(b)) % Half)

\* a < b as u32
u32_lt(a, b) ==
    \/ u32_hi(a) < u32_hi(b)
    \/ u32_hi(a) = u32_hi(b) /\ u32_lo(a) < u32_lo(b)

\* refs.iter().map(|r| r.weight).sum() from the element i on: the sum
\* modulo 2^32, and whether an addition left the range
RECURSIVE sum_u32(_, _, _)
sum_u32(refs, i, acc) ==
    IF i > Len(refs) THEN acc
    ELSE sum_u32(refs, i + 1,
                 [value |-> wrapping_add(acc.value, refs[i].weight),
                  overflowed |-> acc.overflowed \/ add_overflows(acc.value, refs[i].weight)])

\* the values of cumulative in the loop for the draw r, up to the return
RECURSIVE cumulative_values(_, _, _, _)
cumulative_values(refs, i, cumulative, r) ==
    IF i > Len(refs) THEN <<>>
    ELSE IF u32_lt(r, wrapping_add(cumulative, refs[i].weight))
         THEN <<wrapping_add(cumulative, refs[i].weight)>>
         ELSE <<wrapping_add(cumulative, refs[i].weight)>>
              \o cumulative_values(refs, i + 1, wrapping_add(cumulative, refs[i].weight), r)

\* the arithmetic of one call: with overflow checks the first addition that
\* leaves the range panics, without them it wraps
weighted_arithmetic(refs, overflow_checks, r) ==
    IF Len(refs) < 2
    THEN [panicked |-> FALSE, total_weight |-> None, cumulative |-> <<>>]
    ELSE IF sum_u32(refs, 1, [value |-> 0, overflowed |-> FALSE]).overflowed /\ overflow_checks
    THEN [panicked |-> TRUE, total_weight |-> None, cumulative |-> <<>>]
    ELSE IF sum_u32(refs, 1, [value |-> 0, overflowed |-> FALSE]).value = 0
    THEN [panicked |-> FALSE, total_weight |-> Some(0), cumulative |-> <<>>]
    ELSE [panicked |-> FALSE,
          total_weight |-> Some(sum_u32(refs, 1, [value |-> 0, overflowed |-> FALSE]).value),
          cumulative |-> cumulative_values(refs, 1, 0, r)]

\* weights the validator accepts: small ones, the largest below 2^31, 2^31
\* and 2^32 - 1
SumWeights == {1, 2, 2147483647, -2147483647 - 1, -1}

MaxSumRefs == 3

SumInit ==
    /\ DirIdle
    /\ args \in {[refs |-> [i \in DOMAIN w |-> [address |-> "10.0.0.1", port |-> 80,
                                                 weight |-> w[i]]]] :
                    w \in SeqsUpTo(SumWeights, MaxSumRefs)}
    /\ validate_backends(args.refs)
    /\ ret = None

\* gen_range(0..total_weight) returns its smallest or its largest value
CallWeightedArithmetic ==
    /\ ret = None
    /\ \E overflow_checks \in BOOLEAN, largest \in BOOLEAN :
           ret' = <<weighted_arithmetic(
                       args.refs, overflow_checks,
                       IF largest
                       THEN wrapping_add(sum_u32(args.refs, 1,
                                                 [value |-> 0, overflowed |-> FALSE]).value, -1)
                       ELSE 0)>>
    /\ UNCHANGED <<dirVars, statVars, body, libVars, args>>

SpecSum == SumInit /\ [][CallWeightedArithmetic]_vars

\* the sum of the weights as a number: its part above 2^16 and the rest
RECURSIVE sum_hi(_, _)
sum_hi(refs, i) == IF i > Len(refs) THEN 0 ELSE u32_hi(refs[i].weight) + sum_hi(refs, i + 1)
RECURSIVE sum_lo(_, _)
sum_lo(refs, i) == IF i > Len(refs) THEN 0 ELSE u32_lo(refs[i].weight) + sum_lo(refs, i + 1)

is_the_sum(total, refs) ==
    /\ sum_hi(refs, 1) + (sum_lo(refs, 1) \div Half) < Half
    /\ u32_hi(total) = sum_hi(refs, 1) + (sum_lo(refs, 1) \div Half)
    /\ u32_lo(total) = sum_lo(refs, 1) % Half

\* C35: for a validated backend list the call does not panic, the total is
\* the sum of the weights, and no value of cumulative is above the total
TotalWeightIsTheSum ==
    (ret # None /\ Len(args.refs) >= 2) =>
        /\ ~ret[1].panicked
        /\ is_the_sum(ret[1].total_weight[1], args.refs)
        /\ \A k \in 1..Len(ret[1].cumulative) :
               ~u32_lt(ret[1].total_weight[1], ret[1].cumulative[k])

---------------------------------------------------------------------------
(* ReplacePrefixMatch computed for the URL rewrite (vhost_director.rs) and *)
(* for the redirect Location (redirect_backend.rs) of one request          *)

PathsInit ==
    /\ DirIdle
    /\ args \in [path : RewritePaths, new_prefix : NewPrefixes,
                  matched_path : UNION {MatchedPaths(path) : path \in RewritePaths}]
    /\ args.matched_path \in MatchedPaths(args.path)
    /\ ret = None

CallBothRewrites ==
    /\ ret = None
    /\ ret' = <<[url_path |-> apply_replace_prefix_match(args.path, args.new_prefix,
                                                        args.matched_path).path,
                 location_path |->
                     redirect_rewrite_path(
                         [replace_full_path |-> None,
                          replace_prefix_match |-> Some(args.new_prefix)],
                         args.path, matched_path_str(args.matched_path)),
                 heuristic |-> replace_first_segment_heuristic(args.path, args.new_prefix),
                 redirect_heuristic |->
                     redirect_replace_first_segment_heuristic(args.path, args.new_prefix)]>>
    /\ UNCHANGED <<dirVars, statVars, body, libVars, args>>

SpecPaths == PathsInit /\ [][CallBothRewrites]_vars

absolute_path(p) == p # <<>> /\ p[1] = "/"

\* C36: a request path and a replacement that start with '/' give a path
\* that is not empty and starts with '/', by prefix replacement and by the
\* heuristic, for the URL rewrite and for the redirect
ReplacePrefixMatchGivesAbsolutePath ==
    (ret # None /\ absolute_path(args.path) /\ absolute_path(args.new_prefix)) =>
        /\ absolute_path(ret[1].url_path)
        /\ absolute_path(ret[1].location_path)
        /\ absolute_path(ret[1].heuristic)
        /\ absolute_path(ret[1].redirect_heuristic)

\* C40: rewrite_path of the redirect backend and apply_replace_prefix_match
\* give the same path, and the two copies of the heuristic the same result
RedirectAndRewriteGiveSamePath ==
    ret # None =>
        /\ ret[1].url_path = ret[1].location_path
        /\ ret[1].heuristic = ret[1].redirect_heuristic

---------------------------------------------------------------------------
(* VhostDirector::resolve on a request that arrives with lines of the      *)
(* internal header names                                                   *)

InternalNames == {"X-Ghost-Redirect-Config", "X-Ghost-Filter-Context"}

\* the header lines a client may send: none, or one of an internal name
ClientLines ==
    {<<>>} \cup {<<[name |-> name, value |-> [text |-> <<"{">>]]>> :
                    name \in InternalNames \cup {"x-ghost-redirect-config"}}

InternalRequests ==
    {[ok |-> TRUE, method |-> "GET", url |-> P_a, headers |-> client, room |-> room] :
        client \in ClientLines, room \in {1, 4}}

InternalInit ==
    /\ DirIdle
    /\ args \in [director : VhostDirectors, bereq : InternalRequests, r : 0..1]
    /\ route_possible_draw(
           vhost_match_routes(args.director.routes,
                              extract_path_and_query(args.bereq.url)[1], args.bereq.method,
                              request_header_map(args.bereq.headers),
                              extract_path_and_query(args.bereq.url)[2]),
           args.r)
    /\ ret = None

CallResolveClientLines ==
    /\ ret = None
    /\ ret' = <<vhost_resolve(args.director, args.bereq, args.r)>>
    /\ UNCHANGED <<dirVars, statVars, body, libVars, args>>

SpecInternal == InternalInit /\ [][CallResolveClientLines]_vars

\* the lines of the name among headers
lines_of(headers, name) == {i \in 1..Len(headers) : same_name(headers[i].name, name)}

\* resolve has stored a line of the name: the value is a serialized structure
stored_by_resolve(headers, name) ==
    \E i \in lines_of(headers, name) : "json" \in DOMAIN headers[i].value

\* C37: after resolve has stored an internal header, the request has one
\* line of that name and the value read under the name is the stored one
StoredInternalHeaderIsRead ==
    ret # None =>
        \A name \in InternalNames :
            stored_by_resolve(ret[1].bereq.headers, name) =>
                /\ Cardinality(lines_of(ret[1].bereq.headers, name)) = 1
                /\ "json" \in DOMAIN header(ret[1].bereq.headers, name)[1]

---------------------------------------------------------------------------
(* the host name of one Host header value as the vhost lookup and as the   *)
(* redirect Location take it                                               *)

\* get_host_header of lib.rs (lines 234-242)
lib_get_host_header(host_header) ==
    IF host_header = None THEN None
    ELSE Some(to_lowercase(before_index(host_header[1], find_char(host_header[1], ":"))))

MaxHeaderLen == 5

HostHeaderChars == {"a", "A", ":", "[", "]", "8"}

HostHeaderInit ==
    /\ DirIdle
    /\ args \in [host_header : SeqsUpTo(HostHeaderChars, MaxHeaderLen)]
    /\ ret = None

CallBothHostParsers ==
    /\ ret = None
    /\ ret' = <<[lookup |-> get_host_header(Some(args.host_header)),
                 lib_lookup |-> lib_get_host_header(Some(args.host_header)),
                 location |-> parse_host_and_port(args.host_header).hostname]>>
    /\ UNCHANGED <<dirVars, statVars, body, libVars, args>>

SpecHostHeader == HostHeaderInit /\ [][CallBothHostParsers]_vars

\* C39: the host name of the vhost lookup is, up to letter case, the host
\* name parse_host_and_port takes from the same Host header value
LookupHostIsLocationHost ==
    ret # None =>
        /\ ret[1].lookup = Some(to_lowercase(ret[1].location))
        /\ ret[1].lib_lookup = ret[1].lookup

---------------------------------------------------------------------------
(* response.rs: reading an AsyncStreaming body, with process_request of    *)
(* runtime.rs as the producer of its channel.  delivered, last, ended and  *)
(* resumed are history of the reads; sent and empty_sent of the sends.     *)

MaxSent == 2
MaxChunkLen == 2

\* ResponseBody::async_streaming: the receiver is there, the buffer empty
new_streaming_body ==
    [kind |-> "AsyncStreaming", receiver |-> TRUE, data |-> <<>>, cursor |-> 0,
     delivered |-> <<>>, last |-> None, ended |-> FALSE, resumed |-> FALSE]

\* mpsc::channel(16) of process_request, nothing sent
new_body_channel == [queue |-> <<>>, closed |-> FALSE, sent |-> <<>>, sends |-> 0,
                     empty_sent |-> FALSE]

\* the body after a read returned Ok(n) with the bytes copied
streamed(b, buf_len, n, bytes) ==
    [b EXCEPT !.delivered = @ \o bytes,
              !.last = Some([buf_len |-> buf_len, n |-> n, err |-> FALSE]),
              !.ended = @ \/ n = 0,
              !.resumed = @ \/ (b.ended /\ n # 0)]

\* lines 76-85: the read served from the buffer
served_from_buffer(b, buf_len, to_copy) ==
    [streamed(b, buf_len, to_copy, SubSeq(b.data, b.cursor + 1, b.cursor + to_copy))
        EXCEPT !.cursor = @ + to_copy]

\* lines 93-105: a chunk received
chunk_received(b, chunk, buf_len) ==
    IF chunk = <<>> THEN streamed(b, buf_len, 0, <<>>)
    ELSE IF Len(chunk) > buf_len
    THEN [streamed(b, buf_len, min(Len(chunk), buf_len),
                   SubSeq(chunk, 1, min(Len(chunk), buf_len)))
             EXCEPT !.data = chunk, !.cursor = min(Len(chunk), buf_len)]
    ELSE streamed(b, buf_len, min(Len(chunk), buf_len),
                  SubSeq(chunk, 1, min(Len(chunk), buf_len)))

\* lines 106-108: an error received, read returns Err
error_received(b, buf_len) ==
    [b EXCEPT !.last = Some([buf_len |-> buf_len, n |-> 0, err |-> TRUE])]

\* lines 72-121: read of an AsyncStreaming body; queue is what the channel
\* holds, empty for a closed channel
AsyncStreaming_read(b, queue, buf_len) ==
    IF Len(b.data) - b.cursor > 0
    THEN served_from_buffer(b, buf_len, min(Len(b.data) - b.cursor, buf_len))
    ELSE IF ~b.receiver THEN streamed(b, buf_len, 0, <<>>)
    ELSE IF queue = <<>> THEN [streamed(b, buf_len, 0, <<>>) EXCEPT !.receiver = FALSE]
    ELSE IF ~Head(queue).ok THEN error_received(b, buf_len)
    ELSE chunk_received(b, Head(queue).data, buf_len)

\* the read takes an item from the channel
read_receives(b) == Len(b.data) - b.cursor = 0 /\ b.receiver

StreamingNew ==
    /\ body = None
    /\ body_ch = None
    /\ body' = Some(new_streaming_body)
    /\ body_ch' = Some(new_body_channel)
    /\ UNCHANGED <<dirVars, statVars, args, ret, ghost_state, lw, rt>>

\* runtime.rs 117-121: body_tx.send(Ok(chunk.to_vec()))
ProducerSendChunk(chunk) ==
    /\ body_ch # None
    /\ ~body_ch[1].closed
    /\ body_ch[1].sends < MaxSent
    /\ Len(body_ch[1].queue) < BODY_CHANNEL_CAPACITY
    /\ body_ch' = Some([body_ch[1] EXCEPT !.queue = Append(@, [ok |-> TRUE, data |-> chunk]),
                                          !.sent = @ \o chunk,
                                          !.sends = @ + 1,
                                          !.empty_sent = @ \/ chunk = <<>>])
    /\ UNCHANGED <<dirVars, statVars, args, ret, ghost_state, lw, rt, body>>

\* runtime.rs 123-126: the error is sent and the loop left
ProducerSendError ==
    /\ body_ch # None
    /\ ~body_ch[1].closed
    /\ Len(body_ch[1].queue) < BODY_CHANNEL_CAPACITY
    /\ body_ch' = Some([body_ch[1] EXCEPT !.queue = Append(@, [ok |-> FALSE, data |-> <<>>]),
                                          !.closed = TRUE])
    /\ UNCHANGED <<dirVars, statVars, args, ret, ghost_state, lw, rt, body>>

\* runtime.rs 128: the stream is at its end, body_tx is dropped
ProducerEnd ==
    /\ body_ch # None
    /\ ~body_ch[1].closed
    /\ body_ch' = Some([body_ch[1] EXCEPT !.closed = TRUE])
    /\ UNCHANGED <<dirVars, statVars, args, ret, ghost_state, lw, rt, body>>

\* read(buf) with a buffer of buf_len bytes; blocking_recv returns when the
\* channel holds an item or is closed
StreamingRead(buf_len) ==
    /\ body # None
    /\ body_ch # None
    /\ read_receives(body[1]) => (body_ch[1].queue # <<>> \/ body_ch[1].closed)
    /\ body' = Some(AsyncStreaming_read(body[1], body_ch[1].queue, buf_len))
    /\ body_ch' = IF read_receives(body[1]) /\ body_ch[1].queue # <<>>
                  THEN Some([body_ch[1] EXCEPT !.queue = Tail(@)])
                  ELSE body_ch
    /\ UNCHANGED <<dirVars, statVars, args, ret, ghost_state, lw, rt>>

StreamingInit == DirIdle /\ PureIdle

StreamingNext ==
    \/ StreamingNew
    \/ \E chunk \in SeqsUpTo(Bytes, MaxChunkLen) : ProducerSendChunk(chunk)
    \/ ProducerSendError
    \/ ProducerEnd
    \/ \E buf_len \in 1..MaxBufLen : StreamingRead(buf_len)

SpecStreaming == StreamingInit /\ [][StreamingNext]_vars

\* C38: the bytes the reads returned are the first bytes of the chunks sent,
\* in order; a read has returned 0 only with the channel closed and empty
\* and every byte returned; no read after a 0 returns anything else
StreamingReadsDeliverChunks ==
    body # None =>
        /\ Len(body[1].delivered) <= Len(body_ch[1].sent)
        /\ body[1].delivered = SubSeq(body_ch[1].sent, 1, Len(body[1].delivered))
        /\ body[1].ended =>
               /\ body_ch[1].closed
               /\ body_ch[1].queue = <<>>
               /\ body[1].delivered = body_ch[1].sent
        /\ ~body[1].resumed

====
